---- MODULE Spec2Model ----
(***************************************************************************)
(* Model of the session bridge of backend/app/voicelive.py:                *)
(* VoiceLiveBridge with its two pumps (_process_events and                 *)
(* _process_client_messages), the event dispatcher (_handle_event), the    *)
(* function-call coordinator (_handle_function_call on top of              *)
(* _wait_for_event) and the supervision in run.                            *)
(*                                                                         *)
(* The remote pump is one asyncio task.  _handle_event calls               *)
(* _handle_function_call, which waits inside _wait_for_event and forwards  *)
(* every event it does not await back to _handle_event; so coordinators    *)
(* nest.  The variable stack holds the suspended coordinators, innermost   *)
(* last.  A step of the pump is everything the task does from one          *)
(* completed conn.recv() to the next suspension in conn.recv().            *)
(*                                                                         *)
(* log records, in program order, what the session receives and what it    *)
(* does to its collaborators: events received, events entering             *)
(* _handle_event, messages sent on the websocket, requests sent on the     *)
(* remote connection, registry calls and the logged aborts.                *)
(***************************************************************************)
EXTENDS Naturals, Integers, Sequences, FiniteSets, TLC

VARIABLES
    session_ready,              \* self.session_ready
    function_call_in_progress,  \* self.function_call_in_progress
    active_call_id,             \* self.active_call_id
    assistant_text,             \* self._assistant_text
    assistant_transcripts,      \* self._assistant_transcripts
    user_transcripts,           \* self._user_transcripts
    stopped,                    \* self._stopped
    show_transcriptions,        \* self.settings.show_transcriptions
    stack,                      \* suspended _handle_function_call frames
    eventTask,                  \* event_task of run
    clientTask,                 \* client_task of run
    runPc,                      \* position of run
    log,                        \* observable history
    env,                        \* main.py: which of the os.environ settings are set
    ws,                         \* main.py: the client transport of the endpoint
    epPc,                       \* main.py: position of websocket_voice_endpoint
    selected_voice_id,          \* main.py: selected_voice_id
    enable_proactive_greeting,  \* main.py: enable_proactive_greeting
    proactive_greeting_sent,    \* main.py: proactive_greeting_sent
    recvTask,                   \* main.py: the receive_from_client() coroutine
    sendTask                    \* main.py: the send_to_client() coroutine

\* the state of websocket_voice_endpoint (main.py), which serves a connection
\* without a VoiceLiveBridge
endpointVars == <<env, ws, epPc, selected_voice_id, enable_proactive_greeting,
                  proactive_greeting_sent, recvTask, sendTask>>

vars == <<session_ready, function_call_in_progress, active_call_id,
          assistant_text, assistant_transcripts, user_transcripts, stopped,
          show_transcriptions, stack, eventTask, clientTask, runPc, log,
          endpointVars>>

----------------------------------------------------------------------------
(* Bounds of the model *)

\* remote events received by a session of SpecCall
MaxCallEvents == 4

\* remote events received by a session of SpecText
MaxTextEvents == 5

\* remote events / client frames received by a session of SpecRun
MaxRunEvents == 2

MaxRunFrames == 1

\* remote events received in a session of one ordinary turn
MaxTurnEvents == 6

\* remote events received in a session of assistant transcripts
MaxTranscriptEvents == 4

\* remote events and client frames received in a session of client frames
MaxClientEvents == 1

MaxClientFrames == 3

\* remote events received in a session of failing function calls
MaxFailEvents == 5

\* remote events received in a session of calls with unparseable arguments
MaxRegistryEvents == 4

\* client frames (the first message included) and remote events received by
\* a connection of websocket_voice_endpoint
MaxEndpointFrames == 2

MaxEndpointEvents == 2

\* remote events of a session with error events
MaxErrorEvents == 4

\* remote events of a session with events the dispatcher has no branch for
MaxFrameEvents == 3

\* remote events and client frames of a session in which the client sends
\* audio during a function call
MaxPumpEvents == 3

MaxPumpFrames == 2

----------------------------------------------------------------------------
(* Values *)

\* Python's None (and a missing attribute read with getattr(..., None))
None == "None"

\* settings.sample_rate_hz
sample_rate_hz == 24000

\* dict helpers
DictGet(d, key, default) == IF key \in DOMAIN d THEN d[key] ELSE default

DictPut(d, key, val) ==
    [x \in (DOMAIN d) \cup {key} |-> IF x = key THEN val ELSE d[x]]

DictPop(d, key) == [x \in (DOMAIN d) \ {key} |-> d[x]]

EmptyDict == [x \in {} |-> ""]

\* truthiness of an optional string (None and "" are falsy)
Truthy(v) == v # None /\ v # ""

----------------------------------------------------------------------------
(* Function registry *)

\* self.available_functions
available_functions == {"get_current_time", "get_current_weather"}

\* json.loads(arguments) / isinstance dispatch shared by both handlers.
\* An arguments value is [t |-> "str", parse |-> "invalid"] (no JSON),
\* [t |-> "str", parse |-> "nonobject"] (JSON that is no object, such as
\* "[]"), [t |-> "str", parse |-> "object", obj |-> mapping],
\* [t |-> "map", obj |-> mapping] or [t |-> "none"].
ArgsIsStr(a) == a.t = "str"

\* args.get(...) on a parsed value that is no mapping (lines 494, 516)
ArgsGetRaises(a) == a.t = "str" /\ a.parse = "nonobject"

\* a handler that raised: the exception instead of a result
Raise(exc) == [exc |-> exc]

Raised(r) == "exc" \in DOMAIN r

ArgsParseFails(a) == a.t = "str" /\ a.parse = "invalid"

\* str.lower on the time zone names the model uses
Lower(str) ==
    IF str \in {"UTC", "Utc", "utc"} THEN "utc"
    ELSE IF str \in {"Local", "local"} THEN "local"
    ELSE str

get_current_time(arguments) ==
    IF ArgsGetRaises(arguments) THEN Raise("AttributeError") ELSE
    LET args == IF ArgsIsStr(arguments)
                THEN (IF ArgsParseFails(arguments) THEN EmptyDict ELSE arguments.obj)
                ELSE IF arguments.t = "map" THEN arguments.obj
                ELSE EmptyDict
        timezone == DictGet(args, "timezone", "local")
    IN  [fn |-> "get_current_time",
         timezone |-> IF Lower(timezone) = "utc" THEN "UTC" ELSE "local",
         error |-> None]

get_current_weather(arguments) ==
    IF ArgsGetRaises(arguments) THEN Raise("AttributeError")
    ELSE IF ArgsIsStr(arguments) /\ ArgsParseFails(arguments)
    THEN [fn |-> "get_current_weather", error |-> "Invalid arguments"]
    ELSE IF arguments.t = "none"
    THEN [fn |-> "get_current_weather", error |-> "No arguments provided"]
    ELSE LET args == arguments.obj
             unit == DictGet(args, "unit", "celsius")
         IN  [fn |-> "get_current_weather",
              location |-> DictGet(args, "location", "Unknown"),
              unit |-> unit,
              temperature |-> IF unit = "celsius" THEN 22 ELSE 72,
              error |-> None]

\* a registry lookup that lets a failure pass as a result without error
CallRegistry_HidesFailure(function_name, arguments) ==
    LET handler_result == IF function_name = "get_current_time"
                          THEN get_current_time(arguments)
                          ELSE get_current_weather(arguments)
    IN  IF function_name \in available_functions /\ ~Raised(handler_result)
        THEN handler_result
        ELSE [fn |-> function_name, error |-> None]

\* lines 461-468: the registry lookup of _handle_function_call
CallRegistry(function_name, arguments) ==
    LET handler_result == IF function_name = "get_current_time"
                          THEN get_current_time(arguments)
                          ELSE get_current_weather(arguments)
    IN  IF function_name \in available_functions
        THEN (IF Raised(handler_result)
              THEN [fn |-> function_name, error |-> handler_result.exc]
              ELSE handler_result)
        ELSE [fn |-> function_name, error |-> "Unknown function"]

----------------------------------------------------------------------------
(* Remote events and the event dispatcher *)

\* getattr(event, name, default)
Attr(ev, name, default) == IF name \in DOMAIN ev THEN ev[name] ELSE default

\* `x or ""` on an optional string
OrEmpty(v) == IF Truthy(v) THEN v ELSE ""

\* The bridge's mutable state as one value, so that the sequential code of a
\* handler composes: s is threaded through the operators below and written
\* back to the variables by the actions.
Bridge ==
    [session_ready |-> session_ready,
     function_call_in_progress |-> function_call_in_progress,
     active_call_id |-> active_call_id,
     assistant_text |-> assistant_text,
     assistant_transcripts |-> assistant_transcripts,
     user_transcripts |-> user_transcripts,
     stack |-> stack,
     log |-> log]

Logged(s, entry) == [s EXCEPT !.log = Append(@, entry)]

\* await self.websocket.send_json(msg)
SendJson(s, msg) == Logged(s, [k |-> "client", msg |-> msg])

\* lines 275-279
OnResponseCreated(s, ev) ==
    LET response_id == Attr(ev, "response_id", None)
    IN  IF Truthy(response_id)
        THEN [s EXCEPT !.assistant_text = DictPut(@, response_id, "")]
        ELSE s

\* a dispatcher that puts each delta in front of the accumulated text
OnResponseTextDelta_Prepends(s, ev) ==
    LET response_id == Attr(ev, "response_id", None)
        existing == DictGet(s.assistant_text, response_id, "")
        delta == OrEmpty(Attr(ev, "delta", ""))
    IN  IF Truthy(response_id)
        THEN [s EXCEPT !.assistant_text = DictPut(@, response_id, delta \o existing)]
        ELSE s

\* lines 281-287
OnResponseTextDelta(s, ev) ==
    LET response_id == Attr(ev, "response_id", None)
        existing == DictGet(s.assistant_text, response_id, "")
        delta == OrEmpty(Attr(ev, "delta", ""))
    IN  IF Truthy(response_id)
        THEN [s EXCEPT !.assistant_text = DictPut(@, response_id, existing \o delta)]
        ELSE s

\* lines 325-326: the function-call bookkeeping after a response is done
ClearCallBookkeeping(s) ==
    [s EXCEPT !.function_call_in_progress = FALSE, !.active_call_id = None]

\* a dispatcher whose audio branch resets the function-call bookkeeping
OnResponseAudioDelta_ClearsCall(s, ev) ==
    LET delta == Attr(ev, "delta", None)
    IN  IF ~Truthy(delta) THEN s
        ELSE SendJson(
               SendJson(ClearCallBookkeeping(s),
                        [type |-> "assistant_audio",
                         audio |-> <<"b64", delta>>,
                         format |-> "pcm16",
                         sampleRate |-> sample_rate_hz]),
               [type |-> "assistant_state", state |-> "speaking"])

\* lines 289-303
OnResponseAudioDelta(s, ev) ==
    LET delta == Attr(ev, "delta", None)
    IN  IF ~Truthy(delta) THEN s
        ELSE SendJson(
               SendJson(s, [type |-> "assistant_audio",
                            audio |-> <<"b64", delta>>,
                            format |-> "pcm16",
                            sampleRate |-> sample_rate_hz]),
               [type |-> "assistant_state", state |-> "speaking"])

\* lines 311-316: the text of the assistant message
ResponseDoneText(s, ev) ==
    LET response_id == Attr(ev, "response_id", None)
        popped == IF Truthy(response_id)
                  THEN DictGet(s.assistant_text, response_id, "")
                  ELSE ""
        transcript == Attr(ev, "transcript", None)
    IN  IF popped # "" THEN popped
        ELSE IF Truthy(transcript) THEN transcript
        ELSE "Assistant response completed."

\* a dispatcher that reports idle before it sends the assistant message
OnResponseDone_IdleFirst(s, ev) ==
    LET response_id == Attr(ev, "response_id", None)
        text == ResponseDoneText(s, ev)
        s1 == IF Truthy(response_id)
              THEN [s EXCEPT !.assistant_text = DictPop(@, response_id)]
              ELSE s
        s2 == SendJson(ClearCallBookkeeping(s1),
                       [type |-> "assistant_state", state |-> "idle"])
    IN  SendJson(s2, [type |-> "assistant_message",
                      text |-> text,
                      transcript |-> Attr(ev, "transcript", None)])

\* lines 309-328
OnResponseDone(s, ev) ==
    LET response_id == Attr(ev, "response_id", None)
        text == ResponseDoneText(s, ev)
        s1 == IF Truthy(response_id)
              THEN [s EXCEPT !.assistant_text = DictPop(@, response_id)]
              ELSE s
        s2 == SendJson(s1, [type |-> "assistant_message",
                            text |-> text,
                            transcript |-> Attr(ev, "transcript", None)])
    IN  SendJson(ClearCallBookkeeping(s2),
                 [type |-> "assistant_state", state |-> "idle"])

\* lines 330-340
OnUserTranscriptCompleted(s, ev) ==
    LET item_id == Attr(ev, "item_id", None)
        transcript == Attr(ev, "transcript", "")
    IN  IF ~show_transcriptions THEN s
        ELSE IF Truthy(item_id) /\ Truthy(transcript)
        THEN SendJson([s EXCEPT !.user_transcripts = DictPut(@, item_id, transcript)],
                      [type |-> "user_transcript", text |-> transcript,
                       item_id |-> item_id])
        ELSE s

\* lines 342-351 and 390-394: an error attribute is [present |-> FALSE]
\* (None or missing) or [present |-> TRUE, message |-> optional string]
ErrorAttr(ev) == Attr(ev, "error", [present |-> FALSE])

OnUserTranscriptFailed(s, ev) ==
    LET error == ErrorAttr(ev)
        message == IF error.present THEN Attr(error, "message", None) ELSE None
    IN  SendJson(s, [type |-> "error",
                     message |-> IF Truthy(message) THEN message
                                 ELSE "Unable to transcribe your last utterance."])

\* lines 356-360 and 371-375
TranscriptKey(ev) ==
    <<Attr(ev, "response_id", ""), Attr(ev, "item_id", ""), Attr(ev, "output_index", -1)>>

\* a dispatcher that accumulates every transcript delta
OnAudioTranscriptDelta_Unchecked(s, ev) ==
    LET key == TranscriptKey(ev)
        delta == OrEmpty(Attr(ev, "delta", ""))
    IN  [s EXCEPT !.assistant_transcripts =
                    DictPut(@, key, DictGet(@, key, "") \o delta)]

\* lines 353-366
OnAudioTranscriptDelta(s, ev) ==
    LET key == TranscriptKey(ev)
        delta == OrEmpty(Attr(ev, "delta", ""))
    IN  IF ~show_transcriptions THEN s
        ELSE IF ~Truthy(key[1]) \/ ~Truthy(key[2]) \/ key[3] < 0 THEN s
        ELSE [s EXCEPT !.assistant_transcripts =
                         DictPut(@, key, DictGet(@, key, "") \o delta)]

\* a dispatcher that finalizes a transcript from its buffer alone
OnAudioTranscriptDone_BufferOnly(s, ev) ==
    LET key == TranscriptKey(ev)
        transcript == DictGet(s.assistant_transcripts, key, "")
        s1 == IF Truthy(transcript)
              THEN SendJson(s, [type |-> "assistant_transcript",
                                text |-> transcript,
                                response_id |-> key[1]])
              ELSE s
    IN  IF ~show_transcriptions THEN s
        ELSE [s1 EXCEPT !.assistant_transcripts = DictPop(@, key)]

\* lines 368-388
OnAudioTranscriptDone(s, ev) ==
    LET key == TranscriptKey(ev)
        given == Attr(ev, "transcript", "")
        transcript == IF Truthy(given) THEN given
                      ELSE DictGet(s.assistant_transcripts, key, "")
        s1 == IF Truthy(transcript)
              THEN SendJson(s, [type |-> "assistant_transcript",
                                text |-> transcript,
                                response_id |-> key[1]])
              ELSE s
    IN  IF ~show_transcriptions THEN s
        ELSE [s1 EXCEPT !.assistant_transcripts = DictPop(@, key)]

\* lines 390-394
OnError(s, ev) ==
    LET err == ErrorAttr(ev)
        message == IF err.present THEN Attr(err, "message", None)
                   ELSE "Voice assistant error"
    IN  SendJson(s, [type |-> "error", message |-> message])

\* lines 397-399: the isinstance tests on the event and its item
IsFunctionCallItem(ev) ==
    /\ ev.type = "CONVERSATION_ITEM_CREATED"
    /\ "item" \in DOMAIN ev
    /\ ev.item.kind = "function_call"

----------------------------------------------------------------------------
(* Function-call coordinator *)

\* a coordinator that records the item id where the call id belongs
HandleFunctionCallStart_StoresItemId(s, ev) ==
    [s EXCEPT !.function_call_in_progress = TRUE,
              !.active_call_id = ev.item.id,
              !.stack = Append(@, [function_name |-> ev.item.name,
                                   call_id |-> ev.item.call_id,
                                   previous_item_id |-> ev.item.id,
                                   phase |-> "args",
                                   arguments |-> [t |-> "none"]])]

\* lines 419-426 and the entry into the first _wait_for_event (431-436):
\* the coordinator suspends waiting for the arguments
HandleFunctionCallStart(s, ev) ==
    LET function_call_item == ev.item
        frame == [function_name |-> function_call_item.name,
                  call_id |-> function_call_item.call_id,
                  previous_item_id |-> function_call_item.id,
                  phase |-> "args",
                  arguments |-> [t |-> "none"]]
    IN  [s EXCEPT !.function_call_in_progress = TRUE,
                  !.active_call_id = function_call_item.call_id,
                  !.stack = Append(@, frame)]

\* lines 259-411: _handle_event, entered from the call site `via`
\* ("pump": line 250, "forward": line 429, "awaited": line 457)
HandleEvent(s, ev, via) ==
    LET s0 == Logged(s, [k |-> "dispatch", ev |-> ev, via |-> via])
    IN  CASE ev.type = "SESSION_UPDATED" ->
               SendJson([s0 EXCEPT !.session_ready = TRUE],
                        [type |-> "assistant_state", state |-> "ready"])
          [] ev.type = "INPUT_AUDIO_BUFFER_SPEECH_STARTED" ->
               SendJson(s0, [type |-> "assistant_state", state |-> "listening"])
          [] ev.type = "INPUT_AUDIO_BUFFER_SPEECH_STOPPED" ->
               SendJson(s0, [type |-> "assistant_state", state |-> "processing"])
          [] ev.type = "RESPONSE_CREATED" -> OnResponseCreated(s0, ev)
          [] ev.type = "RESPONSE_TEXT_DELTA" -> OnResponseTextDelta(s0, ev)
          [] ev.type = "RESPONSE_AUDIO_DELTA" -> OnResponseAudioDelta(s0, ev)
          [] ev.type = "RESPONSE_AUDIO_DONE" ->
               SendJson(s0, [type |-> "assistant_state", state |-> "processing"])
          [] ev.type = "RESPONSE_DONE" -> OnResponseDone(s0, ev)
          [] ev.type = "CONVERSATION_ITEM_INPUT_AUDIO_TRANSCRIPTION_COMPLETED" ->
               OnUserTranscriptCompleted(s0, ev)
          [] ev.type = "CONVERSATION_ITEM_INPUT_AUDIO_TRANSCRIPTION_FAILED" ->
               OnUserTranscriptFailed(s0, ev)
          [] ev.type = "RESPONSE_AUDIO_TRANSCRIPT_DELTA" -> OnAudioTranscriptDelta(s0, ev)
          [] ev.type = "RESPONSE_AUDIO_TRANSCRIPT_DONE" -> OnAudioTranscriptDone(s0, ev)
          [] ev.type = "ERROR" -> OnError(s0, ev)
          [] ev.type = "CONVERSATION_ITEM_CREATED" ->
               IF IsFunctionCallItem(ev)
               THEN HandleFunctionCallStart(
                      SendJson(s0, [type |-> "assistant_state",
                                    state |-> "function_call",
                                    function |-> ev.item.name]),
                      ev)
               ELSE s0
          [] OTHER -> s0

\* the wanted_types of the _wait_for_event a frame is suspended in
\* (line 434 for the arguments, line 454 for the turn completion)
WantedTypes(frame) ==
    IF frame.phase = "args"
    THEN {"RESPONSE_FUNCTION_CALL_ARGUMENTS_DONE"}
    ELSE {"RESPONSE_DONE"}

\* line 54
IsWanted(frame, ev) == ev.type \in WantedTypes(frame)

\* a wait that drops what it does not await (on_unhandled left out)
OnUnhandled_Drops(s, ev) == s

\* lines 56-57 with on_unhandled = _forward (428-429)
OnUnhandled(s, ev) == HandleEvent(s, ev, "forward")

\* a coordinator that takes any arguments-done event for its own
CallIdMatches_Any(frame, ev) == TRUE

\* line 447, negated
CallIdMatches(frame, ev) == ev.call_id = frame.call_id

Top(s) == s.stack[Len(s.stack)]

Pop(s) == [s EXCEPT !.stack = SubSeq(@, 1, Len(@) - 1)]

\* a coordinator that requests the new turn before it submits the output
ExecuteAndSubmit_TurnFirst(s, frame) ==
    LET result == CallRegistry(frame.function_name, frame.arguments)
        s1 == Logged(s, [k |-> "invoke", name |-> frame.function_name,
                         arguments |-> frame.arguments])
        s2 == Logged(s1, [k |-> "remote", op |-> "response_create"])
    IN  Logged(s2, [k |-> "remote", op |-> "item_create",
                    previous_item_id |-> frame.previous_item_id,
                    call_id |-> frame.call_id,
                    output |-> result])

\* lines 461-475: execute the function and submit its result
\* a coordinator that submits the output item a second time
ExecuteAndSubmit_SubmitsTwice(s, frame) ==
    LET result == CallRegistry(frame.function_name, frame.arguments)
        s1 == IF frame.function_name \in available_functions
              THEN Logged(s, [k |-> "invoke",
                              name |-> frame.function_name,
                              arguments |-> frame.arguments])
              ELSE s
        item == [k |-> "remote", op |-> "item_create",
                 previous_item_id |-> frame.previous_item_id,
                 call_id |-> frame.call_id,
                 output |-> result]
    IN  Logged(Logged(Logged(s1, item), item),
               [k |-> "remote", op |-> "response_create"])

ExecuteAndSubmit(s, frame) ==
    LET result == CallRegistry(frame.function_name, frame.arguments)
        s1 == IF frame.function_name \in available_functions
              THEN Logged(s, [k |-> "invoke",
                              name |-> frame.function_name,
                              arguments |-> frame.arguments])
              ELSE s
        s2 == Logged(s1, [k |-> "remote", op |-> "item_create",
                          previous_item_id |-> frame.previous_item_id,
                          call_id |-> frame.call_id,
                          output |-> result])
    IN  Logged(s2, [k |-> "remote", op |-> "response_create"])

\* a coordinator whose mismatch abort resets the call bookkeeping
OnArgumentsDone_ClearsFlags(s, frame, ev) ==
    IF ~CallIdMatches(frame, ev)
    THEN Pop(Logged([s EXCEPT !.function_call_in_progress = FALSE,
                              !.active_call_id = None],
                    [k |-> "logger", what |-> "call_id_mismatch",
                     call_id |-> frame.call_id]))
    ELSE [s EXCEPT !.stack[Len(s.stack)] =
                     [frame EXCEPT !.phase = "done", !.arguments = ev.arguments]]

\* lines 441-449: the coordinator resumes with the arguments-done event
OnArgumentsDone(s, frame, ev) ==
    IF ~CallIdMatches(frame, ev)
    THEN Pop(Logged(s, [k |-> "logger", what |-> "call_id_mismatch",
                        call_id |-> frame.call_id]))
    ELSE [s EXCEPT !.stack[Len(s.stack)] =
                     [frame EXCEPT !.phase = "done", !.arguments = ev.arguments]]

\* a coordinator that does not dispatch the response-done event it awaited
OnTurnDone_SkipsDispatch(s, frame, ev) ==
    ExecuteAndSubmit(Pop(s), frame)

\* a coordinator that executes the function before it dispatches the
\* response-done event it awaited
OnTurnDone_ExecutesFirst(s, frame, ev) ==
    HandleEvent(ExecuteAndSubmit(Pop(s), frame), ev, "awaited")

\* lines 457-475: the coordinator resumes with the response-done event
OnTurnDone(s, frame, ev) ==
    ExecuteAndSubmit(HandleEvent(Pop(s), ev, "awaited"), frame)

\* lines 51-57: one iteration of _next in the wait of the innermost frame
WaitStep(s, ev) ==
    LET frame == Top(s)
    IN  IF IsWanted(frame, ev)
        THEN (IF frame.phase = "args"
              THEN OnArgumentsDone(s, frame, ev)
              ELSE OnTurnDone(s, frame, ev))
        ELSE OnUnhandled(s, ev)

\* lines 249-250: one iteration of the remote pump, or of the wait the pump
\* task is suspended in
OnRecv(s, ev) ==
    LET s1 == Logged(s, [k |-> "recv", ev |-> ev])
    IN  IF s.stack = <<>> THEN HandleEvent(s1, ev, "pump") ELSE WaitStep(s1, ev)

\* a coordinator that goes on to execute after either wait expired
OnTimeout_AlwaysExecutes(s) ==
    ExecuteAndSubmit(
      Logged([s EXCEPT !.stack = <<>>],
             [k |-> "logger",
              what |-> IF s.stack[1].phase = "args" THEN "timeout_arguments"
                       ELSE "timeout_response",
              call_id |-> s.stack[1].call_id]),
      s.stack[1])

\* a coordinator that resets the call bookkeeping when it abandons a call
OnTimeout_ClearsFlags(s) ==
    LET frame == s.stack[1]
        s1 == [s EXCEPT !.stack = <<>>]
    IN  IF frame.phase = "args"
        THEN Logged([s1 EXCEPT !.function_call_in_progress = FALSE,
                               !.active_call_id = None],
                    [k |-> "logger", what |-> "timeout_arguments",
                     call_id |-> frame.call_id])
        ELSE ExecuteAndSubmit(
               Logged(s1, [k |-> "logger", what |-> "timeout_response",
                           call_id |-> frame.call_id]),
               frame)

\* line 59 with lines 437-439 and 458-459.  The waits of nested coordinators
\* start in nesting order and last timeout_s each, so the outermost wait
\* expires first; asyncio.wait_for then cancels its _next(), which unwinds
\* every coordinator nested inside it.
OnTimeout(s) ==
    LET frame == s.stack[1]
        s1 == [s EXCEPT !.stack = <<>>]
    IN  IF frame.phase = "args"
        THEN Logged(s1, [k |-> "logger", what |-> "timeout_arguments",
                         call_id |-> frame.call_id])
        ELSE ExecuteAndSubmit(
               Logged(s1, [k |-> "logger", what |-> "timeout_response",
                           call_id |-> frame.call_id]),
               frame)

----------------------------------------------------------------------------
(* Client frames *)

\* lines 189-242: the reaction of the client pump to one received frame.
\* A frame is [kind |-> "text", json |-> "invalid"], [kind |-> "text",
\* json |-> "nonobject"] (valid JSON that is no object, so that data.get
\* raises AttributeError), [kind |-> "text", json |-> "object", data |->
\* mapping], [kind |-> "bytes", bytes |-> b] or [kind |-> "keepalive"].
\* A string audio payload is <<"b64", content>>, any other JSON value is
\* <<"json", value>>.  remote_fails says whether the request the frame
\* leads to on the remote connection (input_audio_buffer.append or
\* response.cancel) raises.  The result of a reaction is
\* <<new state, "continue" | "break" | "raise">>.
FrameData(frame) ==
    IF frame.kind = "text" THEN frame.data
    ELSE [type |-> "audio_chunk", audio |-> <<"b64", frame.bytes>>]

\* isinstance(audio_payload, str), line 226
IsStrPayload(v) == v # None /\ v[1] = "b64"

\* a pump that gives up on a malformed frame
OnInvalidPayload_Stops(s) ==
    <<SendJson(s, [type |-> "error", message |-> "Invalid payload received"]), "break">>

\* lines 192-196
OnInvalidPayload(s) ==
    <<SendJson(s, [type |-> "error", message |-> "Invalid payload received"]), "continue">>

\* a pump that lets a failing cancel escape
OnStop_CancelEscapes(s, remote_fails) ==
    IF s.session_ready /\ remote_fails
    THEN <<Logged(s, [k |-> "remote", op |-> "response_cancel_failed"]), "raise">>
    ELSE IF s.session_ready
    THEN <<Logged(s, [k |-> "remote", op |-> "response_cancel"]), "break">>
    ELSE <<s, "break">>

\* lines 210-217 (self._connection is set for as long as the pumps exist)
OnStop(s, remote_fails) ==
    IF s.session_ready
    THEN <<Logged(s, [k |-> "remote",
                      op |-> IF remote_fails THEN "response_cancel_failed"
                             ELSE "response_cancel"]),
           "break">>
    ELSE <<s, "break">>

\* a pump that acknowledges what it rejects
OnUnsupported_Acks(s, data) ==
    <<SendJson(SendJson(s, [type |-> "error",
                            message |-> <<"Unsupported message type: ",
                                          Attr(data, "type", None)>>]),
               [type |-> "ack", sequence |-> Attr(data, "sequence", None)]),
      "continue">>

\* lines 219-223; the message is the f-string, kept as its two parts
OnUnsupported(s, data) ==
    <<SendJson(s, [type |-> "error",
                   message |-> <<"Unsupported message type: ", Attr(data, "type", None)>>]),
      "continue">>

\* a pump that a failing append brings down
OnAppendFailed_Raises(s, audio_payload) ==
    <<Logged(s, [k |-> "remote", op |-> "append_failed", audio |-> audio_payload]),
      "raise">>

\* lines 232-239: input_audio_buffer.append raises
OnAppendFailed(s, audio_payload) ==
    <<SendJson(Logged(s, [k |-> "remote", op |-> "append_failed",
                          audio |-> audio_payload]),
               [type |-> "error", message |-> "Unable to forward audio to assistant"]),
      "continue">>

\* a pump that numbers its acks itself
OnAppended_CountsAcks(s, data, audio_payload) ==
    <<SendJson(Logged(s, [k |-> "remote", op |-> "append", audio |-> audio_payload]),
               [type |-> "ack", sequence |-> "1"]),
      "continue">>

\* lines 232-233 and 241-242: the chunk is forwarded, then acknowledged
OnAppended(s, data, audio_payload) ==
    <<SendJson(Logged(s, [k |-> "remote", op |-> "append", audio |-> audio_payload]),
               [type |-> "ack", sequence |-> Attr(data, "sequence", None)]),
      "continue">>

\* lines 225-242
OnAudioChunk(s, data, remote_fails) ==
    LET audio_payload == Attr(data, "audio", None)
    IN  IF ~IsStrPayload(audio_payload)
        THEN <<SendJson(s, [type |-> "error",
                            message |-> "Audio payload missing or invalid"]),
               "continue">>
        ELSE IF remote_fails THEN OnAppendFailed(s, audio_payload)
        ELSE OnAppended(s, data, audio_payload)

OnFrame(s, frame, remote_fails) ==
    LET s0 == Logged(s, [k |-> "frame", frame |-> frame])
    IN  IF frame.kind = "text" /\ frame.json = "invalid" THEN OnInvalidPayload(s0)
        ELSE IF frame.kind = "keepalive" THEN <<s0, "continue">>
        ELSE IF frame.kind = "text" /\ frame.json = "nonobject" THEN <<s0, "raise">>
        ELSE
          LET data == FrameData(frame)
              msg_type == Attr(data, "type", None)
          IN  IF msg_type = "ping"
              THEN <<SendJson(s0, [type |-> "pong"]), "continue">>
              ELSE IF msg_type = "stop" THEN OnStop(s0, remote_fails)
              ELSE IF msg_type # "audio_chunk" THEN OnUnsupported(s0, data)
              ELSE OnAudioChunk(s0, data, remote_fails)

----------------------------------------------------------------------------
(* State machine *)

\* __init__, lines 65-84, and the tasks and position of run before it starts
InitSelf ==
    /\ session_ready = FALSE
    /\ function_call_in_progress = FALSE
    /\ active_call_id = None
    /\ assistant_text = EmptyDict
    /\ assistant_transcripts = EmptyDict
    /\ user_transcripts = EmptyDict
    /\ stopped = FALSE
    /\ stack = <<>>
    /\ eventTask = "unborn"
    /\ clientTask = "unborn"
    /\ runPc = "connected"
    /\ log = <<>>

\* main.py: DEFAULT_VOICE_ID and the keys of AVAILABLE_VOICES
DEFAULT_VOICE_ID == "vlasta"

AVAILABLE_VOICES == {"ava", "andrew", "antonin", "vlasta"}

\* a session served by a VoiceLiveBridge: websocket_voice_endpoint is not
\* running
EndpointIdle ==
    /\ env = "ok"
    /\ ws = "open"
    /\ epPc = "idle"
    /\ selected_voice_id = DEFAULT_VOICE_ID
    /\ enable_proactive_greeting = FALSE
    /\ proactive_greeting_sent = FALSE
    /\ recvTask = "unborn"
    /\ sendTask = "unborn"

InitBridge == InitSelf /\ EndpointIdle

Init == InitBridge /\ show_transcriptions = TRUE

\* write the threaded bridge state back
Commit(s) ==
    /\ session_ready' = s.session_ready
    /\ function_call_in_progress' = s.function_call_in_progress
    /\ active_call_id' = s.active_call_id
    /\ assistant_text' = s.assistant_text
    /\ assistant_transcripts' = s.assistant_transcripts
    /\ user_transcripts' = s.user_transcripts
    /\ stack' = s.stack
    /\ log' = s.log

Count(kind) == Cardinality({i \in 1..Len(log) : log[i].k = kind})

\* lines 96-103: _configure_session (session.update) and the greeting
RunConfigure ==
    /\ runPc = "connected"
    /\ runPc' = "configured"
    /\ log' = log \o <<[k |-> "remote", op |-> "session_update"],
                       [k |-> "client",
                        msg |-> [type |-> "system_message",
                                 text |-> "Connected to Azure Voice Live. You can start speaking!"]]>>
    /\ UNCHANGED <<session_ready, function_call_in_progress, active_call_id,
                   assistant_text, assistant_transcripts, user_transcripts, stopped,
                   show_transcriptions, endpointVars, stack, eventTask, clientTask>>

\* a run that starts the pumps without configuring the session
RunStartPumps_Unconfigured ==
    /\ runPc = "connected"
    /\ runPc' = "waiting"
    /\ eventTask' = "running"
    /\ clientTask' = "running"
    /\ UNCHANGED <<session_ready, function_call_in_progress, active_call_id,
                   assistant_text, assistant_transcripts, user_transcripts, stopped,
                   show_transcriptions, endpointVars, stack, log>>

\* lines 105-111: both tasks are created and run waits for the first to end
RunStartPumps ==
    /\ runPc = "configured"
    /\ runPc' = "waiting"
    /\ eventTask' = "running"
    /\ clientTask' = "running"
    /\ UNCHANGED <<session_ready, function_call_in_progress, active_call_id,
                   assistant_text, assistant_transcripts, user_transcripts, stopped,
                   show_transcriptions, endpointVars, stack, log>>

\* lines 248-250 (and 53-57 inside a coordinator): the remote pump receives
\* one event of the set events
RemoteRecv(events, max) ==
    /\ eventTask = "running"
    /\ stack # <<>> \/ ~stopped
    /\ Count("recv") < max
    /\ \E ev \in events : Commit(OnRecv(Bridge, ev))
    /\ UNCHANGED <<stopped, show_transcriptions, endpointVars, eventTask, clientTask, runPc>>

\* line 59: the wait of the outermost coordinator expires
WaitTimeout ==
    /\ eventTask = "running"
    /\ stack # <<>>
    /\ Commit(OnTimeout(Bridge))
    /\ UNCHANGED <<stopped, show_transcriptions, endpointVars, eventTask, clientTask, runPc>>

\* the client transport is known to be closed: websocket.receive() has
\* raised in the client pump
TransportClosed == \E i \in 1..Len(log) : log[i].k = "disconnect"

\* whether websocket.send_json raises.  On an open transport it does not; on
\* a closed one it depends on the server the bridge runs under (the send is
\* dropped, or the ASGI send raises)
SendRaises == IF TransportClosed THEN BOOLEAN ELSE {FALSE}

\* lines 253-257: conn.recv() raises; the pump logs it, sends the client the
\* generic error and returns.  When that send raises, the exception leaves
\* _process_events, since the send is inside the except clause.
RemoteFail ==
    /\ eventTask = "running"
    /\ stack # <<>> \/ ~stopped
    /\ \E send_raises \in SendRaises :
          IF send_raises
          THEN /\ Commit(Logged([Bridge EXCEPT !.stack = <<>>],
                                [k |-> "send_raised",
                                 msg |-> [type |-> "error",
                                          message |-> "Azure Voice Live connection ended unexpectedly"]]))
               /\ eventTask' = "failed"
          ELSE /\ Commit(SendJson([Bridge EXCEPT !.stack = <<>>],
                                  [type |-> "error",
                                   message |-> "Azure Voice Live connection ended unexpectedly"]))
               /\ eventTask' = "done"
    /\ UNCHANGED <<stopped, show_transcriptions, endpointVars, clientTask, runPc>>

\* a client pump that takes no frame while a function call is pending
ClientRecv_WaitsForCall(frames, max) ==
    /\ clientTask = "running"
    /\ ~stopped
    /\ stack = <<>>
    /\ Count("frame") < max
    /\ \E frame \in frames, remote_fails \in BOOLEAN :
          LET r == OnFrame(Bridge, frame, remote_fails)
          IN  /\ Commit(r[1])
              /\ clientTask' = CASE r[2] = "continue" -> "running"
                                  [] r[2] = "break" -> "done"
                                  [] r[2] = "raise" -> "failed"
    /\ UNCHANGED <<stopped, show_transcriptions, endpointVars, eventTask, runPc>>

\* lines 183-242: the client pump receives one frame
ClientRecv(frames, max) ==
    /\ clientTask = "running"
    /\ ~stopped
    /\ Count("frame") < max
    /\ \E frame \in frames, remote_fails \in BOOLEAN :
          LET r == OnFrame(Bridge, frame, remote_fails)
          IN  /\ Commit(r[1])
              /\ clientTask' = CASE r[2] = "continue" -> "running"
                                  [] r[2] = "break" -> "done"
                                  [] r[2] = "raise" -> "failed"
    /\ UNCHANGED <<stopped, show_transcriptions, endpointVars, eventTask, runPc>>

\* lines 185-187: websocket.receive() raises (the client is gone)
ClientDisconnect ==
    /\ clientTask = "running"
    /\ ~stopped
    /\ clientTask' = "done"
    /\ log' = Append(log, [k |-> "disconnect"])
    /\ UNCHANGED <<session_ready, function_call_in_progress, active_call_id,
                   assistant_text, assistant_transcripts, user_transcripts, stopped,
                   show_transcriptions, endpointVars, stack, eventTask, runPc>>

Finished(task) == task \in {"done", "failed"}

\* a run that leaves the pending task alone
AfterCancel_NoCancel(task) == task

\* task.cancel() on a pending task (line 116)
AfterCancel(task) == IF Finished(task) THEN task ELSE "cancelling"

\* lines 108-121: asyncio.wait returns because a task has ended; run sets the
\* flag, cancels what is pending and awaits what is done, without suspending
RunStop ==
    /\ runPc = "waiting"
    /\ Finished(eventTask) \/ Finished(clientTask)
    /\ stopped' = TRUE
    /\ eventTask' = AfterCancel(eventTask)
    /\ clientTask' = AfterCancel(clientTask)
    /\ runPc' = IF "failed" \in {eventTask, clientTask} THEN "raised" ELSE "returned"
    /\ UNCHANGED <<session_ready, function_call_in_progress, active_call_id,
                   assistant_text, assistant_transcripts, user_transcripts,
                   show_transcriptions, endpointVars, stack, log>>

\* lines 251-252: CancelledError reaches the remote pump at its conn.recv()
\* and unwinds the coordinators on its way out
EventCancelled ==
    /\ eventTask = "cancelling"
    /\ eventTask' = "cancelled"
    /\ stack' = <<>>
    /\ UNCHANGED <<session_ready, function_call_in_progress, active_call_id,
                   assistant_text, assistant_transcripts, user_transcripts, stopped,
                   show_transcriptions, endpointVars, clientTask, runPc, log>>

\* lines 185-186: CancelledError reaches the client pump at
\* websocket.receive(); `except Exception` does not catch it
ClientCancelled ==
    /\ clientTask = "cancelling"
    /\ clientTask' = "cancelled"
    /\ UNCHANGED <<session_ready, function_call_in_progress, active_call_id,
                   assistant_text, assistant_transcripts, user_transcripts, stopped,
                   show_transcriptions, endpointVars, stack, eventTask, runPc, log>>

----------------------------------------------------------------------------
(* main.py: websocket_voice_endpoint *)

\* The endpoint of main.py serves a connection by itself: the handshake, the
\* connection to the service and two coroutines run by asyncio.gather.  ws is
\* "open", "gone" (the client has disconnected) or "closed" (the endpoint has
\* closed it).  epPc is "accepted", "init_wait", "connecting", "pumping",
\* "except", "finally", "exited" (the coroutine returned) or "raised" (an
\* exception left it).

\* the variables of the bridge, which the endpoint does not use
selfVars == <<session_ready, function_call_in_progress, active_call_id,
              assistant_text, assistant_transcripts, user_transcripts, stopped,
              show_transcriptions, stack, eventTask, clientTask, runPc>>

\* lines 318-327: the connection is accepted and the environment is read
InitEndpoint ==
    /\ InitSelf
    /\ show_transcriptions = TRUE
    /\ env \in {"ok", "no_endpoint", "no_model"}
    /\ ws = "open"
    /\ epPc = "accepted"
    /\ selected_voice_id = DEFAULT_VOICE_ID
    /\ enable_proactive_greeting = FALSE
    /\ proactive_greeting_sent = FALSE
    /\ recvTask = "unborn"
    /\ sendTask = "unborn"

\* whether a send or a close on the client transport raises: not while the
\* client is connected; once it is gone, it depends on the ASGI server
WsRaises == IF ws = "gone" THEN BOOLEAN ELSE {FALSE}

\* websocket.close()
AfterClose(state) == IF state = "open" THEN "closed" ELSE state

\* the client disconnects
ClientGoesAway ==
    /\ epPc \in {"accepted", "init_wait", "connecting", "pumping", "except", "finally"}
    /\ ws = "open"
    /\ ws' = "gone"
    /\ UNCHANGED <<selfVars, log, env, epPc, selected_voice_id,
                   enable_proactive_greeting, proactive_greeting_sent,
                   recvTask, sendTask>>

\* lines 329-342: a missing setting is reported, the transport is closed and
\* the endpoint returns; neither call is guarded
EpCheckConfig ==
    /\ epPc = "accepted"
    /\ IF env = "ok"
       THEN /\ epPc' = "init_wait"
            /\ UNCHANGED <<ws, log>>
       ELSE \E send_raises \in WsRaises, close_raises \in WsRaises :
              LET msg == [type |-> "error",
                          message |-> IF env = "no_endpoint"
                                      THEN "Server configuration error: Missing endpoint"
                                      ELSE "Server configuration error: Missing model"]
              IN  IF send_raises
                  THEN /\ log' = Append(log, [k |-> "send_raised", msg |-> msg])
                       /\ epPc' = "raised"
                       /\ ws' = ws
                  ELSE IF close_raises
                  THEN /\ log' = log \o <<[k |-> "client", msg |-> msg],
                                           [k |-> "close", raised |-> TRUE]>>
                       /\ epPc' = "raised"
                       /\ ws' = ws
                  ELSE /\ log' = log \o <<[k |-> "client", msg |-> msg],
                                           [k |-> "close", raised |-> FALSE]>>
                       /\ epPc' = "exited"
                       /\ ws' = AfterClose(ws)
    /\ UNCHANGED <<selfVars, env, selected_voice_id, enable_proactive_greeting,
                   proactive_greeting_sent, recvTask, sendTask>>

\* a handshake that does not look at the type of the first message
InitHandshake_AnyType(first) ==
    LET defaults == [outcome |-> "proceed", voice |-> DEFAULT_VOICE_ID, greeting |-> FALSE]
    IN  CASE first.kind = "timeout" -> defaults
          [] first.kind = "disconnect" -> [outcome |-> "WebSocketDisconnect"]
          [] first.kind = "bytes" -> [outcome |-> "KeyError"]
          [] first.kind = "text" /\ first.json = "invalid" -> defaults
          [] first.kind = "text" /\ first.json = "nonobject" ->
               [outcome |-> "AttributeError"]
          [] OTHER ->
               LET init_message == first.data
                   voice_id == Attr(init_message, "voice_id", None)
               IN  [outcome |-> "proceed",
                    voice |-> IF Truthy(voice_id) /\ voice_id \in AVAILABLE_VOICES
                              THEN voice_id ELSE DEFAULT_VOICE_ID,
                    greeting |-> Attr(init_message, "proactive_greeting", FALSE)]

\* lines 359-376: what the first message does.  first is [kind |->
\* "timeout"] (nothing within 10 s), [kind |-> "disconnect"], or a frame as
\* for OnFrame.  The result says whether the endpoint goes on (and with which
\* settings) or which exception leaves the try statement, whose except
\* clauses are TimeoutError and JSONDecodeError only.
InitHandshake(first) ==
    LET defaults == [outcome |-> "proceed", voice |-> DEFAULT_VOICE_ID, greeting |-> FALSE]
    IN  CASE first.kind = "timeout" -> defaults
          [] first.kind = "disconnect" -> [outcome |-> "WebSocketDisconnect"]
          [] first.kind = "bytes" -> [outcome |-> "KeyError"]
          [] first.kind = "text" /\ first.json = "invalid" -> defaults
          [] first.kind = "text" /\ first.json = "nonobject" ->
               [outcome |-> "AttributeError"]
          [] OTHER ->
               LET init_message == first.data
                   voice_id == Attr(init_message, "voice_id", None)
               IN  IF Attr(init_message, "type", None) = "init"
                   THEN [outcome |-> "proceed",
                         voice |-> IF Truthy(voice_id) /\ voice_id \in AVAILABLE_VOICES
                                   THEN voice_id ELSE DEFAULT_VOICE_ID,
                         greeting |-> Attr(init_message, "proactive_greeting", FALSE)]
                   ELSE defaults

\* lines 355-376: the bounded wait for the first message
EpInitWait(firsts) ==
    /\ epPc = "init_wait"
    /\ \E first \in firsts :
          LET r == InitHandshake(first)
          IN  /\ ws = "gone" => first.kind = "disconnect"
              /\ log' = Append(log, [k |-> "frame", frame |-> first])
              /\ ws' = IF first.kind = "disconnect" THEN "gone" ELSE ws
              /\ IF r.outcome = "proceed"
                 THEN /\ epPc' = "connecting"
                      /\ selected_voice_id' = r.voice
                      /\ enable_proactive_greeting' = r.greeting
                 ELSE /\ epPc' = "raised"
                      /\ UNCHANGED <<selected_voice_id, enable_proactive_greeting>>
    /\ UNCHANGED <<selfVars, env, proactive_greeting_sent, recvTask, sendTask>>

\* lines 378-393 and 444: connect and setup_session (either may raise), the
\* ready message, and the start of the two coroutines
EpConnect ==
    /\ epPc = "connecting"
    /\ \E remote_fails \in BOOLEAN, send_raises \in WsRaises :
          IF remote_fails
          THEN /\ log' = Append(log, [k |-> "remote", op |-> "connect_failed"])
               /\ epPc' = "except"
               /\ UNCHANGED <<recvTask, sendTask>>
          ELSE IF send_raises
          THEN /\ log' = log \o <<[k |-> "remote", op |-> "session_update",
                                    voice |-> selected_voice_id],
                                   [k |-> "send_raised",
                                    msg |-> [type |-> "ready",
                                             message |-> "Voice assistant ready"]]>>
               /\ epPc' = "finally"
               /\ UNCHANGED <<recvTask, sendTask>>
          ELSE /\ log' = log \o <<[k |-> "remote", op |-> "session_update",
                                    voice |-> selected_voice_id],
                                   [k |-> "client",
                                    msg |-> [type |-> "ready",
                                             message |-> "Voice assistant ready"]]>>
               /\ epPc' = "pumping"
               /\ recvTask' = "running"
               /\ sendTask' = "running"
    /\ UNCHANGED <<selfVars, env, ws, selected_voice_id, enable_proactive_greeting,
                   proactive_greeting_sent>>

\* lines 398-415: what receive_from_client does with one frame; every
\* exception ends the coroutine (line 414).  The result is
\* <<log entries, "continue" | "end">>.
OnEndpointFrame(frame, append_raises) ==
    LET received == <<[k |-> "frame", frame |-> frame]>>
    IN  IF frame.kind # "text" \/ frame.json # "object" THEN <<received, "end">>
        ELSE IF "type" \notin DOMAIN frame.data THEN <<received, "end">>
        ELSE IF frame.data.type = "audio"
        THEN (IF "data" \notin DOMAIN frame.data THEN <<received, "end">>
              ELSE IF append_raises
              THEN <<Append(received, [k |-> "remote", op |-> "append_failed",
                                       audio |-> frame.data.data]),
                     "end">>
              ELSE <<Append(received, [k |-> "remote", op |-> "append",
                                       audio |-> frame.data.data]),
                     "continue">>)
        ELSE <<received, "continue">>

EpClientFrame(frames, max) ==
    /\ epPc = "pumping"
    /\ recvTask = "running"
    /\ ws = "open"
    /\ Count("frame") < max
    /\ \E frame \in frames, append_raises \in BOOLEAN :
          LET r == OnEndpointFrame(frame, append_raises)
          IN  /\ log' = log \o r[1]
              /\ recvTask' = IF r[2] = "continue" THEN "running" ELSE "done"
    /\ UNCHANGED <<selfVars, env, ws, epPc, selected_voice_id,
                   enable_proactive_greeting, proactive_greeting_sent, sendTask>>

\* lines 400 and 412-413: receive_text raises WebSocketDisconnect
EpClientDisconnect ==
    /\ epPc = "pumping"
    /\ recvTask = "running"
    /\ ws \in {"open", "gone"}
    /\ ws' = "gone"
    /\ recvTask' = "done"
    /\ log' = Append(log, [k |-> "disconnect"])
    /\ UNCHANGED <<selfVars, env, epPc, selected_voice_id,
                   enable_proactive_greeting, proactive_greeting_sent, sendTask>>

\* lines 594-672: the message handle_voicelive_event sends for an event of
\* a type without a function call, [type |-> None] when it sends none
EndpointMessage(ev) ==
    CASE ev.type = "SESSION_UPDATED" ->
           [type |-> "session_ready", session_id |-> ev.session_id]
      [] ev.type = "INPUT_AUDIO_BUFFER_SPEECH_STARTED" -> [type |-> "user_started_speaking"]
      [] ev.type = "INPUT_AUDIO_BUFFER_SPEECH_STOPPED" -> [type |-> "user_stopped_speaking"]
      [] ev.type = "RESPONSE_CREATED" -> [type |-> "assistant_response_started"]
      [] ev.type = "RESPONSE_AUDIO_DELTA" -> [type |-> "audio", data |-> <<"b64", ev.delta>>]
      [] ev.type = "RESPONSE_AUDIO_DONE" -> [type |-> "assistant_response_ended"]
      [] ev.type = "RESPONSE_DONE" -> [type |-> "response_complete"]
      [] OTHER -> [type |-> None]

\* lines 424-441: send_to_client takes one event from the connection; an
\* exception of the send ends the coroutine (line 440)
EpRemoteEvent(events, max) ==
    /\ epPc = "pumping"
    /\ sendTask = "running"
    /\ Count("recv") < max
    /\ \E ev \in events, send_raises \in WsRaises :
          LET msg == EndpointMessage(ev)
              received == <<[k |-> "recv", ev |-> ev]>>
              cancel == IF ev.type = "INPUT_AUDIO_BUFFER_SPEECH_STARTED"
                        THEN <<[k |-> "remote", op |-> "response_cancel"]>>
                        ELSE <<>>
              greets == /\ ev.type = "SESSION_UPDATED"
                        /\ enable_proactive_greeting
                        /\ ~proactive_greeting_sent
          IN  IF msg.type # None /\ send_raises
              THEN /\ log' = Append(received, [k |-> "send_raised", msg |-> msg])
                   /\ sendTask' = "done"
                   /\ UNCHANGED proactive_greeting_sent
              ELSE /\ log' = log \o received
                                 \o (IF msg.type # None
                                     THEN <<[k |-> "client", msg |-> msg]>> ELSE <<>>)
                                 \o cancel
                                 \o (IF greets
                                     THEN <<[k |-> "remote", op |-> "response_create",
                                             greeting |-> TRUE]>>
                                     ELSE <<>>)
                   /\ sendTask' = "running"
                   /\ proactive_greeting_sent' = (proactive_greeting_sent \/ greets)
    /\ UNCHANGED <<selfVars, env, ws, epPc, selected_voice_id,
                   enable_proactive_greeting, recvTask>>

\* lines 424 and 440-441: the stream of the connection ends or raises
EpRemoteEnds ==
    /\ epPc = "pumping"
    /\ sendTask = "running"
    /\ sendTask' = "done"
    /\ log' = Append(log, [k |-> "remote", op |-> "stream_ended"])
    /\ UNCHANGED <<selfVars, env, ws, epPc, selected_voice_id,
                   enable_proactive_greeting, proactive_greeting_sent, recvTask>>

\* lines 444-448: asyncio.gather returns once both coroutines have ended
EpGather ==
    /\ epPc = "pumping"
    /\ recvTask = "done"
    /\ sendTask = "done"
    /\ epPc' = "finally"
    /\ UNCHANGED <<selfVars, log, env, ws, selected_voice_id,
                   enable_proactive_greeting, proactive_greeting_sent,
                   recvTask, sendTask>>

\* lines 452-460: the error is reported to the client, best effort
EpExcept ==
    /\ epPc = "except"
    /\ \E send_raises \in WsRaises :
          log' = Append(log, [k |-> IF send_raises THEN "send_raised" ELSE "client",
                              msg |-> [type |-> "error", message |-> "str(e)"]])
    /\ epPc' = "finally"
    /\ UNCHANGED <<selfVars, env, ws, selected_voice_id, enable_proactive_greeting,
                   proactive_greeting_sent, recvTask, sendTask>>

\* lines 461-465: the transport is closed, best effort
EpFinally ==
    /\ epPc = "finally"
    /\ \E close_raises \in WsRaises :
          log' = Append(log, [k |-> "close", raised |-> close_raises])
    /\ ws' = AfterClose(ws)
    /\ epPc' = "exited"
    /\ UNCHANGED <<selfVars, env, selected_voice_id, enable_proactive_greeting,
                   proactive_greeting_sent, recvTask, sendTask>>

----------------------------------------------------------------------------
(* Sessions exercising the function-call coordinator *)

WeatherArgs == [t |-> "str", parse |-> "object", obj |-> [location |-> "Prague"]]

TimeArgs == [t |-> "str", parse |-> "object", obj |-> [timezone |-> "UTC"]]

FunctionCallItemEvents ==
    {[type |-> "CONVERSATION_ITEM_CREATED",
      item |-> [kind |-> "function_call", name |-> "get_current_weather",
                call_id |-> "C1", id |-> "I1"]],
     [type |-> "CONVERSATION_ITEM_CREATED",
      item |-> [kind |-> "function_call", name |-> "get_current_time",
                call_id |-> "C2", id |-> "I2"]]}

ArgumentsDoneEvents ==
    {[type |-> "RESPONSE_FUNCTION_CALL_ARGUMENTS_DONE", call_id |-> "C1",
      arguments |-> WeatherArgs],
     [type |-> "RESPONSE_FUNCTION_CALL_ARGUMENTS_DONE", call_id |-> "C2",
      arguments |-> TimeArgs]}

CallEvents ==
    FunctionCallItemEvents \cup ArgumentsDoneEvents \cup
    {[type |-> "RESPONSE_DONE", response_id |-> "R1"],
     [type |-> "RESPONSE_CREATED", response_id |-> "R1"],
     [type |-> "INPUT_AUDIO_BUFFER_SPEECH_STARTED"],
     [type |-> "CONVERSATION_ITEM_CREATED", item |-> [kind |-> "message", id |-> "I3"]]}

RecvCall == RemoteRecv(CallEvents, MaxCallEvents)

NextCall == RunConfigure \/ RunStartPumps \/ RecvCall \/ WaitTimeout

SpecCall == Init /\ [][NextCall]_vars

----------------------------------------------------------------------------
(* Sessions exercising the supervision of the two pumps *)

RunEvents ==
    {[type |-> "SESSION_UPDATED"],
     [type |-> "RESPONSE_DONE", response_id |-> "R1"],
     [type |-> "CONVERSATION_ITEM_CREATED",
      item |-> [kind |-> "function_call", name |-> "get_current_weather",
                call_id |-> "C1", id |-> "I1"]]}

RunFrames ==
    {[kind |-> "text", json |-> "object", data |-> [type |-> "stop"]],
     [kind |-> "text", json |-> "object",
      data |-> [type |-> "audio_chunk", audio |-> <<"b64", "pcm">>, sequence |-> "1"]],
     [kind |-> "text", json |-> "nonobject"]}

RecvRun == RemoteRecv(RunEvents, MaxRunEvents)

FrameRun == ClientRecv(RunFrames, MaxRunFrames)

NextRun ==
    \/ RunConfigure
    \/ RunStartPumps
    \/ RecvRun
    \/ WaitTimeout
    \/ RemoteFail
    \/ FrameRun
    \/ ClientDisconnect
    \/ RunStop
    \/ EventCancelled
    \/ ClientCancelled

SpecRun == Init /\ [][NextRun]_vars

\* The event loop runs every callback it has scheduled: run is woken once a
\* task it waits for is done, and a cancelled task is resumed with
\* CancelledError.
FairSpecRun ==
    /\ SpecRun
    /\ WF_vars(RunStop)
    /\ WF_vars(EventCancelled)
    /\ WF_vars(ClientCancelled)

----------------------------------------------------------------------------
(* Sessions exercising the response accumulator *)

TextEvents ==
    {[type |-> "RESPONSE_CREATED", response_id |-> "R1"],
     [type |-> "RESPONSE_CREATED", response_id |-> "R2"],
     [type |-> "RESPONSE_TEXT_DELTA", response_id |-> "R1", delta |-> "a"],
     [type |-> "RESPONSE_TEXT_DELTA", response_id |-> "R1", delta |-> "b"],
     [type |-> "RESPONSE_TEXT_DELTA", response_id |-> "R1"],
     [type |-> "RESPONSE_TEXT_DELTA", response_id |-> "R2", delta |-> "c"],
     [type |-> "RESPONSE_DONE", response_id |-> "R1"],
     [type |-> "RESPONSE_DONE", response_id |-> "R2", transcript |-> "t"]}

RecvText == RemoteRecv(TextEvents, MaxTextEvents)

NextText == RunConfigure \/ RunStartPumps \/ RecvText

SpecText == Init /\ [][NextText]_vars

----------------------------------------------------------------------------
(* Sessions of ordinary turns: speech, a streamed response, its end *)

TurnEvents ==
    {[type |-> "INPUT_AUDIO_BUFFER_SPEECH_STARTED"],
     [type |-> "INPUT_AUDIO_BUFFER_SPEECH_STOPPED"],
     [type |-> "RESPONSE_CREATED", response_id |-> "R1"],
     [type |-> "RESPONSE_TEXT_DELTA", response_id |-> "R1", delta |-> "Hel"],
     [type |-> "RESPONSE_TEXT_DELTA", response_id |-> "R1", delta |-> "lo"],
     [type |-> "RESPONSE_DONE", response_id |-> "R1"]}

RecvTurn == RemoteRecv(TurnEvents, MaxTurnEvents)

NextTurn == RunConfigure \/ RunStartPumps \/ RecvTurn

SpecTurn == Init /\ [][NextTurn]_vars

----------------------------------------------------------------------------
(* Sessions exercising the transcripts, with the display setting either way *)

\* settings.show_transcriptions is read from the environment
InitTranscript == InitBridge /\ show_transcriptions \in BOOLEAN

TranscriptEvents ==
    {[type |-> "RESPONSE_AUDIO_TRANSCRIPT_DELTA", response_id |-> "R1",
      item_id |-> "I1", output_index |-> 0, delta |-> "x"],
     [type |-> "RESPONSE_AUDIO_TRANSCRIPT_DELTA", response_id |-> "R1",
      item_id |-> "I1", output_index |-> 0, delta |-> "y"],
     [type |-> "RESPONSE_AUDIO_TRANSCRIPT_DELTA", response_id |-> "R1",
      output_index |-> 0, delta |-> "z"],
     [type |-> "RESPONSE_AUDIO_TRANSCRIPT_DONE", response_id |-> "R1",
      item_id |-> "I1", output_index |-> 0, transcript |-> "t"],
     [type |-> "RESPONSE_AUDIO_TRANSCRIPT_DONE", response_id |-> "R1",
      item_id |-> "I1", output_index |-> 0],
     [type |-> "RESPONSE_AUDIO_TRANSCRIPT_DONE", response_id |-> "R2",
      item_id |-> "I2", output_index |-> 0, transcript |-> "u"],
     [type |-> "CONVERSATION_ITEM_INPUT_AUDIO_TRANSCRIPTION_COMPLETED",
      item_id |-> "I9", transcript |-> "hi"]}

RecvTranscript == RemoteRecv(TranscriptEvents, MaxTranscriptEvents)

NextTranscript == RunConfigure \/ RunStartPumps \/ RecvTranscript

SpecTranscript == InitTranscript /\ [][NextTranscript]_vars

----------------------------------------------------------------------------
(* Sessions exercising the client pump *)

ClientEvents == {[type |-> "SESSION_UPDATED"]}

ClientFrames ==
    {[kind |-> "text", json |-> "invalid"],
     [kind |-> "text", json |-> "object", data |-> [type |-> "ping"]],
     [kind |-> "text", json |-> "object", data |-> [type |-> "stop"]],
     [kind |-> "text", json |-> "object", data |-> [type |-> "init", sequence |-> "9"]],
     [kind |-> "text", json |-> "object",
      data |-> [type |-> "audio_chunk", audio |-> <<"b64", "pcm1">>, sequence |-> "1"]],
     [kind |-> "text", json |-> "object",
      data |-> [type |-> "audio_chunk", audio |-> <<"b64", "pcm2">>, sequence |-> "2"]],
     [kind |-> "text", json |-> "object",
      data |-> [type |-> "audio_chunk", sequence |-> "3"]],
     [kind |-> "bytes", bytes |-> "pcm4"]}

RecvClient == RemoteRecv(ClientEvents, MaxClientEvents)

FrameClient == ClientRecv(ClientFrames, MaxClientFrames)

NextClient ==
    \/ RunConfigure
    \/ RunStartPumps
    \/ RecvClient
    \/ FrameClient
    \/ RunStop
    \/ EventCancelled

SpecClient == Init /\ [][NextClient]_vars

----------------------------------------------------------------------------
(* Sessions exercising function calls that fail *)

FailEvents ==
    {[type |-> "CONVERSATION_ITEM_CREATED",
      item |-> [kind |-> "function_call", name |-> "get_current_weather",
                call_id |-> "C1", id |-> "I1"]],
     [type |-> "CONVERSATION_ITEM_CREATED",
      item |-> [kind |-> "function_call", name |-> "get_stock_price",
                call_id |-> "C3", id |-> "I3"]],
     [type |-> "RESPONSE_FUNCTION_CALL_ARGUMENTS_DONE", call_id |-> "C1",
      arguments |-> [t |-> "str", parse |-> "nonobject"]],
     [type |-> "RESPONSE_FUNCTION_CALL_ARGUMENTS_DONE", call_id |-> "C3",
      arguments |-> [t |-> "str", parse |-> "object", obj |-> [symbol |-> "MSFT"]]],
     [type |-> "RESPONSE_DONE", response_id |-> "R1"]}

RecvFail == RemoteRecv(FailEvents, MaxFailEvents)

NextFail == RunConfigure \/ RunStartPumps \/ RecvFail \/ WaitTimeout

SpecFail == Init /\ [][NextFail]_vars

----------------------------------------------------------------------------
(* Sessions exercising the argument parsing of the registry *)

NoJsonArgs == [t |-> "str", parse |-> "invalid"]

EmptyArgs == [t |-> "map", obj |-> EmptyDict]

RegistryEvents ==
    FunctionCallItemEvents \cup
    {[type |-> "RESPONSE_FUNCTION_CALL_ARGUMENTS_DONE", call_id |-> "C1",
      arguments |-> NoJsonArgs],
     [type |-> "RESPONSE_FUNCTION_CALL_ARGUMENTS_DONE", call_id |-> "C2",
      arguments |-> NoJsonArgs],
     [type |-> "RESPONSE_DONE", response_id |-> "R1"]}

RecvRegistry == RemoteRecv(RegistryEvents, MaxRegistryEvents)

NextRegistry == RunConfigure \/ RunStartPumps \/ RecvRegistry \/ WaitTimeout

SpecRegistry == Init /\ [][NextRegistry]_vars

----------------------------------------------------------------------------
(* Sessions with remote error events *)

ErrorEvents ==
    {[type |-> "ERROR"],
     [type |-> "ERROR", error |-> [present |-> TRUE]],
     [type |-> "ERROR", error |-> [present |-> TRUE, message |-> "boom"]],
     [type |-> "RESPONSE_CREATED", response_id |-> "R1"],
     [type |-> "CONVERSATION_ITEM_CREATED",
      item |-> [kind |-> "function_call", name |-> "get_current_time",
                call_id |-> "C2", id |-> "I2"]]}

RecvError == RemoteRecv(ErrorEvents, MaxErrorEvents)

NextError == RunConfigure \/ RunStartPumps \/ RecvError \/ WaitTimeout

SpecError == Init /\ [][NextError]_vars

----------------------------------------------------------------------------
(* Sessions with events the dispatcher has no branch for *)

\* events of a category that is not in the dispatch table
UnlistedEvents ==
    {[type |-> "RATE_LIMITS_UPDATED"],
     [type |-> "CONVERSATION_ITEM_CREATED", item |-> [kind |-> "message", id |-> "I3"]],
     [type |-> "RESPONSE_FUNCTION_CALL_ARGUMENTS_DONE", call_id |-> "C2",
      arguments |-> TimeArgs]}

\* events whose branch only notifies the client
NotifyingEvents ==
    {[type |-> "INPUT_AUDIO_BUFFER_SPEECH_STARTED"],
     [type |-> "INPUT_AUDIO_BUFFER_SPEECH_STOPPED"],
     [type |-> "RESPONSE_AUDIO_DELTA", delta |-> "pcm"],
     [type |-> "RESPONSE_AUDIO_DELTA"],
     [type |-> "RESPONSE_AUDIO_DONE"]}

FrameEvents ==
    UnlistedEvents \cup NotifyingEvents \cup
    {[type |-> "SESSION_UPDATED"],
     [type |-> "RESPONSE_CREATED", response_id |-> "R1"],
     [type |-> "RESPONSE_AUDIO_TRANSCRIPT_DELTA", response_id |-> "R1",
      item_id |-> "I1", output_index |-> 0, delta |-> "x"],
     [type |-> "CONVERSATION_ITEM_CREATED",
      item |-> [kind |-> "function_call", name |-> "get_current_time",
                call_id |-> "C2", id |-> "I2"]]}

RecvFrame == RemoteRecv(FrameEvents, MaxFrameEvents)

NextFrame == RunConfigure \/ RunStartPumps \/ RecvFrame \/ WaitTimeout

SpecFrame == Init /\ [][NextFrame]_vars

----------------------------------------------------------------------------
(* Sessions in which the client sends audio during a function call *)

PumpEvents ==
    {[type |-> "CONVERSATION_ITEM_CREATED",
      item |-> [kind |-> "function_call", name |-> "get_current_time",
                call_id |-> "C2", id |-> "I2"]],
     [type |-> "RESPONSE_FUNCTION_CALL_ARGUMENTS_DONE", call_id |-> "C2",
      arguments |-> TimeArgs],
     [type |-> "RESPONSE_DONE", response_id |-> "R1"]}

PumpFrames ==
    {[kind |-> "text", json |-> "object",
      data |-> [type |-> "audio_chunk", audio |-> <<"b64", "pcm1">>, sequence |-> "1"]]}

RecvPumps == RemoteRecv(PumpEvents, MaxPumpEvents)

FramePumps == ClientRecv(PumpFrames, MaxPumpFrames)

NextPumps == RunConfigure \/ RunStartPumps \/ RecvPumps \/ WaitTimeout \/ FramePumps

SpecPumps == Init /\ [][NextPumps]_vars

----------------------------------------------------------------------------
(* Connections served by websocket_voice_endpoint *)

FirstMessages ==
    {[kind |-> "timeout"],
     [kind |-> "disconnect"],
     [kind |-> "bytes", bytes |-> "pcm"],
     [kind |-> "text", json |-> "invalid"],
     [kind |-> "text", json |-> "nonobject"],
     [kind |-> "text", json |-> "object",
      data |-> [type |-> "init", voice_id |-> "ava", proactive_greeting |-> TRUE]],
     [kind |-> "text", json |-> "object",
      data |-> [type |-> "init", voice_id |-> "andrew"]],
     [kind |-> "text", json |-> "object",
      data |-> [type |-> "init", voice_id |-> "bogus", proactive_greeting |-> TRUE]],
     [kind |-> "text", json |-> "object",
      data |-> [type |-> "init", proactive_greeting |-> TRUE]],
     [kind |-> "text", json |-> "object",
      data |-> [type |-> "audio", data |-> <<"b64", "pcm">>, voice_id |-> "ava",
                proactive_greeting |-> TRUE]]}

EndpointFrames ==
    {[kind |-> "text", json |-> "object",
      data |-> [type |-> "init", voice_id |-> "andrew", proactive_greeting |-> TRUE]],
     [kind |-> "text", json |-> "object",
      data |-> [type |-> "audio", data |-> <<"b64", "pcm">>]],
     [kind |-> "text", json |-> "invalid"]}

EndpointEvents ==
    {[type |-> "SESSION_UPDATED", session_id |-> "S1"],
     [type |-> "RESPONSE_DONE", response_id |-> "R1"]}

FirstMessage == EpInitWait(FirstMessages)

FrameEndpoint == EpClientFrame(EndpointFrames, MaxEndpointFrames)

RecvEndpoint == EpRemoteEvent(EndpointEvents, MaxEndpointEvents)

NextEndpoint ==
    \/ ClientGoesAway
    \/ EpCheckConfig
    \/ FirstMessage
    \/ EpConnect
    \/ FrameEndpoint
    \/ EpClientDisconnect
    \/ RecvEndpoint
    \/ EpRemoteEnds
    \/ EpGather
    \/ EpExcept
    \/ EpFinally

SpecEndpoint == InitEndpoint /\ [][NextEndpoint]_vars

\* The event loop runs the endpoint coroutine whenever it can go on: after
\* the configuration was read, after the first message, once gather has
\* both results, in the except clause and in the finally clause.  Nothing
\* obliges the client to send or to leave, or the service to send or to end
\* its stream.
FairSpecEndpoint ==
    /\ SpecEndpoint
    /\ WF_vars(EpCheckConfig)
    /\ WF_vars(EpConnect)
    /\ WF_vars(EpGather)
    /\ WF_vars(EpExcept)
    /\ WF_vars(EpFinally)

----------------------------------------------------------------------------
(* Reading the log *)

IsRecv(e) == e.k = "recv"

IsDispatch(e) == e.k = "dispatch"

IsClient(e) == e.k = "client"

IsInvoke(e) == e.k = "invoke"

IsRemote(e, op) == e.k = "remote" /\ e.op = op

IsLogger(e, what) == e.k = "logger" /\ e.what = what

IsDispatchOfCall(e) == IsDispatch(e) /\ IsFunctionCallItem(e.ev)

IsDispatchOfType(e, type) == IsDispatch(e) /\ e.ev.type = type

\* what the coordinator does to the registry and the remote connection
IsCallActivity(e) ==
    IsInvoke(e) \/ IsRemote(e, "item_create") \/ IsRemote(e, "response_create")

\* the part of the log written by the current step
NewLog == SubSeq(log', Len(log) + 1, Len(log'))

Indices(seq, P(_)) == {i \in 1..Len(seq) : P(seq[i])}

Last(S) == CHOOSE i \in S : \A j \in S : j <= i

----------------------------------------------------------------------------
(* C1 *)

\* C1: in every reachable state at most one function call is pending, that
\* is detected and neither submitted nor abandoned; a pending call is a
\* coordinator suspended in one of its two waits.
AtMostOnePendingCall == Len(stack) <= 1

----------------------------------------------------------------------------
(* C2 *)

\* C2 as stated: active_call_id is None or the call id of the function call
\* currently in flight (the coordinator that is waiting); it never holds the
\* id of a call that was submitted or abandoned.
ActiveCallIdIsInFlight ==
    \/ active_call_id = None
    \/ /\ stack # <<>>
       /\ stack[Len(stack)].call_id = active_call_id

CallDispatches == Indices(log, IsDispatchOfCall)

\* C2 amended: active_call_id is None or the call id of the most recently
\* detected function-call item, whether that call is still in flight, was
\* submitted or was abandoned.
ActiveCallIdIsLastDetected ==
    \/ active_call_id = None
    \/ /\ CallDispatches # {}
       /\ active_call_id = log[Last(CallDispatches)].ev.item.call_id

\* an abandoned call whose id active_call_id still holds
ActiveCallIdOutlivesCall ==
    /\ stack = <<>>
    /\ active_call_id = "C1"
    /\ \E i \in 1..Len(log) : IsLogger(log[i], "timeout_arguments")

----------------------------------------------------------------------------
(* C3 *)

\* the step receives ev while the innermost coordinator waits in phase
StepReceivesInPhase(ev, phase) ==
    /\ stack # <<>>
    /\ stack[Len(stack)].phase = phase
    /\ Len(log') > Len(log)
    /\ log'[Len(log) + 1] = [k |-> "recv", ev |-> ev]

\* the arguments-done event the model sends for a call id
ArgumentsSentFor(call_id) ==
    {ev.arguments : ev \in {e \in ArgumentsDoneEvents : e.call_id = call_id}}

\* every registry call is made with arguments that came with the call id of
\* the output item submitted right after it
NoForeignArguments ==
    \A i \in 1..Len(log) :
        IsInvoke(log[i]) =>
            /\ i < Len(log)
            /\ IsRemote(log[i + 1], "item_create")
            /\ log[i].arguments \in ArgumentsSentFor(log[i + 1].call_id)

\* C3: when the arguments-done event consumed by a waiting coordinator
\* carries another call id than the detected item, the call is aborted: the
\* coordinator is gone, and the step invokes no registry function, submits
\* no output item and requests no new turn; and no registry function is ever
\* called with the arguments of an event that carried a foreign call id.
CallIdMismatchAborts ==
    /\ [][\A ev \in ArgumentsDoneEvents :
            (StepReceivesInPhase(ev, "args") /\ ev.call_id # stack[Len(stack)].call_id)
            => /\ stack' = SubSeq(stack, 1, Len(stack) - 1)
               /\ \A i \in 1..Len(NewLog) : ~IsCallActivity(NewLog[i])]_vars
    /\ []NoForeignArguments

\* a call was aborted for a foreign call id
CallIdMismatchSeen ==
    \E i \in 1..Len(log) : IsLogger(log[i], "call_id_mismatch")

----------------------------------------------------------------------------
(* C4 *)

\* the entries the coordinator writes after the awaited response-done event
\* at index i entered the dispatcher
OutputAfter(i) ==
    IF i + 3 <= Len(log) /\ IsInvoke(log[i + 3]) THEN i + 4 ELSE i + 3

HappyPathAt(i) ==
    LET o == OutputAfter(i)
    IN  /\ o + 1 <= Len(log)
        /\ IsRecv(log[i - 1]) /\ log[i - 1].ev = log[i].ev
        /\ IsClient(log[i + 1]) /\ log[i + 1].msg.type = "assistant_message"
        /\ IsClient(log[i + 2])
        /\ log[i + 2].msg = [type |-> "assistant_state", state |-> "idle"]
        /\ IsRemote(log[o], "item_create")
        /\ IsRemote(log[o + 1], "response_create")
        /\ o + 1 < Len(log) => IsRecv(log[o + 2]) \/ IsLogger(log[o + 2], "timeout_arguments")
                                \/ IsLogger(log[o + 2], "timeout_response")
        /\ \E a \in 1..(i - 1) :
              /\ IsDispatchOfCall(log[a])
              /\ log[a].ev.item.call_id = log[o].call_id
              /\ log[a].ev.item.id = log[o].previous_item_id
              /\ log[a + 1] = [k |-> "client",
                               msg |-> [type |-> "assistant_state",
                                        state |-> "function_call",
                                        function |-> log[a].ev.item.name]]
              /\ log[a].ev.item.name \in available_functions
                    => /\ IsInvoke(log[o - 1])
                       /\ log[o - 1].name = log[a].ev.item.name
                       /\ log[o].output = CallRegistry(log[o - 1].name, log[o - 1].arguments)
              /\ \E b \in (a + 1)..(i - 1) :
                    /\ IsRecv(log[b])
                    /\ log[b].ev.type = "RESPONSE_FUNCTION_CALL_ARGUMENTS_DONE"
                    /\ log[b].ev.call_id = log[o].call_id
                    /\ IsInvoke(log[o - 1]) => log[o - 1].arguments = log[b].ev.arguments

AwaitedDispatches ==
    {i \in 1..Len(log) : IsDispatch(log[i]) /\ log[i].via = "awaited"}

\* C4: whenever a coordinator receives the turn-completion event it waits
\* for, the log holds, in this order: the detection of its function-call item
\* (call id C, item id I) with the client's assistant_state function_call
\* naming the function; an arguments-done event with call id C; the
\* turn-completion event entering the dispatcher (assistant_message, then
\* idle); the registry call of that function with the captured arguments;
\* one output item with call id C and previous_item_id I; response.create.
HappyPathOrder == \A i \in AwaitedDispatches : HappyPathAt(i)

\* a call went through the happy path
HappyPathSeen == AwaitedDispatches # {}

----------------------------------------------------------------------------
(* C5 *)

ArgumentsTimeouts == Indices(log, LAMBDA e : IsLogger(e, "timeout_arguments"))

\* the event received at index j entered the dispatcher, or it is the
\* arguments-done event of a call detected after index i
DispatchedAfter(i, j) ==
    \/ /\ j < Len(log)
       /\ IsDispatch(log[j + 1])
       /\ log[j + 1].ev = log[j].ev
    \/ /\ log[j].ev.type = "RESPONSE_FUNCTION_CALL_ARGUMENTS_DONE"
       /\ \E a \in (i + 1)..(j - 1) : IsDispatchOfCall(log[a])

\* C5: when the wait for the arguments expires, the coordinator abandons the
\* call (the step calls no registry function, submits no output item and
\* requests no new turn), the remote pump keeps running with no coordinator
\* left, the next event received is dispatched by _process_events itself,
\* and every event received later still enters the dispatcher.
ArgumentsTimeoutAbandons ==
    \A i \in ArgumentsTimeouts :
        /\ i = Len(log) => stack = <<>> /\ eventTask = "running"
        /\ i < Len(log) =>
              /\ IsRecv(log[i + 1])
              /\ i + 2 <= Len(log)
              /\ log[i + 2] = [k |-> "dispatch", ev |-> log[i + 1].ev, via |-> "pump"]
        /\ \A j \in (i + 1)..Len(log) : IsRecv(log[j]) => DispatchedAfter(i, j)

\* an event was received and dispatched after a call was abandoned
EventAfterArgumentsTimeout ==
    \E i \in ArgumentsTimeouts : i + 2 <= Len(log) /\ IsDispatch(log[i + 2])

----------------------------------------------------------------------------
(* C6 *)

\* C6: when the wait for the turn completion expires, that call is
\* abandoned: no registry function is executed and no output item is
\* submitted for it.
ResponseTimeoutAbandons ==
    \A i \in 1..Len(log) :
        IsLogger(log[i], "timeout_response") =>
            i = Len(log) \/ ~IsCallActivity(log[i + 1])

----------------------------------------------------------------------------
(* C7 *)

\* the log ends with the submission of a call that went through the happy path
JustSubmittedOnHappyPath ==
    /\ Len(log) >= 6
    /\ IsRemote(log[Len(log)], "response_create")
    /\ IsRemote(log[Len(log) - 1], "item_create")
    /\ \E i \in AwaitedDispatches : OutputAfter(i) = Len(log) - 1

\* C7: on the happy path function_call_in_progress stays true and
\* active_call_id stays set through execution and submission of the output
\* item; the response-done of the turn that contained the call does not
\* clear them.
BookkeepingHeldThroughSubmission ==
    JustSubmittedOnHappyPath =>
        /\ function_call_in_progress
        /\ active_call_id = log[Len(log) - 1].call_id

----------------------------------------------------------------------------
(* C8 *)

AwaitedType(phase) ==
    IF phase = "args" THEN "RESPONSE_FUNCTION_CALL_ARGUMENTS_DONE" ELSE "RESPONSE_DONE"

\* the step receives an event while a coordinator waits for another type
StepReceivesUnawaited ==
    /\ stack # <<>>
    /\ Len(log') > Len(log)
    /\ IsRecv(log'[Len(log) + 1])
    /\ log'[Len(log) + 1].ev.type # AwaitedType(stack[Len(stack)].phase)

\* what the ordinary dispatcher does with ev in a session with the same
\* accumulators and no call pending
OrdinaryDispatch(ev) ==
    HandleEvent([Bridge EXCEPT !.stack = <<>>, !.log = <<>>], ev, "pump")

\* C8: every event received during the arguments wait or the turn-completion
\* wait whose type is not the awaited one is passed exactly once to
\* _handle_event, and what it sends to the client and does to the session
\* state is what the ordinary dispatcher does with it when no call is pending
\* (a forwarded function-call item starts its coordinator on top of the
\* waiting one).
UnawaitedEventsForwarded ==
    [][StepReceivesUnawaited =>
        LET ev == log'[Len(log) + 1].ev
            ref == OrdinaryDispatch(ev)
        IN  /\ Len(NewLog) >= 2
            /\ NewLog[2] = [k |-> "dispatch", ev |-> ev, via |-> "forward"]
            /\ Cardinality(Indices(NewLog, IsDispatch)) = 1
            /\ SubSeq(NewLog, 3, Len(NewLog)) = SubSeq(ref.log, 2, Len(ref.log))
            /\ session_ready' = ref.session_ready
            /\ function_call_in_progress' = ref.function_call_in_progress
            /\ active_call_id' = ref.active_call_id
            /\ assistant_text' = ref.assistant_text
            /\ assistant_transcripts' = ref.assistant_transcripts
            /\ user_transcripts' = ref.user_transcripts
            /\ stack' = stack \o ref.stack]_vars

\* an event was forwarded by a waiting coordinator and reached the client
ForwardedEventSeen ==
    \E i \in 1..Len(log) :
        /\ IsDispatch(log[i]) /\ log[i].via = "forward"
        /\ i < Len(log) /\ IsClient(log[i + 1])

----------------------------------------------------------------------------
(* C9 *)

Alive(task) == task \in {"running", "cancelling"}

\* C9: the stopped flag is set only once a pump has finished, in the step
\* that sets it every pump still pending is cancelled, so that no pump is
\* left running (receiving) while the flag is set; and from any state in
\* which one pump has finished the session reaches a state in which neither
\* pump is running.
FirstPumpEndStopsBoth ==
    /\ [][(~stopped /\ stopped') =>
            /\ Finished(eventTask) \/ Finished(clientTask)
            /\ eventTask' # "running"
            /\ clientTask' # "running"]_vars
    /\ [](stopped => eventTask # "running" /\ clientTask # "running")
    /\ (Finished(eventTask) \/ Finished(clientTask))
          ~> (~Alive(eventTask) /\ ~Alive(clientTask))

\* one pump ended by itself and the other one was cancelled by run
OtherPumpCancelled ==
    /\ stopped
    /\ \/ Finished(clientTask) /\ eventTask = "cancelled"
       \/ Finished(eventTask) /\ clientTask = "cancelled"

----------------------------------------------------------------------------
(* C10 *)

IsDispatchFor(e, type, response_id) ==
    /\ IsDispatchOfType(e, type)
    /\ Attr(e.ev, "response_id", None) = response_id

\* the text deltas for response_id dispatched at the indices from..to, joined
\* in the order of the log
RECURSIVE DeltasJoined(_, _, _)
DeltasJoined(response_id, from, to) ==
    IF from > to THEN ""
    ELSE (IF IsDispatchFor(log[from], "RESPONSE_TEXT_DELTA", response_id)
          THEN OrEmpty(Attr(log[from].ev, "delta", ""))
          ELSE "")
         \o DeltasJoined(response_id, from + 1, to)

\* the response-started event of the response that is done at index i: the
\* last one for its id, provided no response-done for the id came after it
StartOf(i) ==
    LET response_id == log[i].ev.response_id
        starts == {c \in 1..(i - 1) :
                     IsDispatchFor(log[c], "RESPONSE_CREATED", response_id)}
        start == Last(starts)
    IN  IF starts = {} THEN 0
        ELSE IF \E d \in (start + 1)..(i - 1) :
                   IsDispatchFor(log[d], "RESPONSE_DONE", response_id)
        THEN 0
        ELSE start

StartedResponsesDone ==
    {i \in 1..Len(log) :
        /\ IsDispatchOfType(log[i], "RESPONSE_DONE")
        /\ Truthy(Attr(log[i].ev, "response_id", None))
        /\ StartOf(i) # 0}

\* C10: for every response id R, the assistant_message sent at the
\* response-done of a started response R carries as text the text deltas for
\* R dispatched since the response-started event for R, joined in arrival
\* order, when that is not empty, whatever events of other responses came in
\* between.
MessageTextIsDeltasJoined ==
    \A i \in StartedResponsesDone :
        LET joined == DeltasJoined(log[i].ev.response_id, StartOf(i) + 1, i - 1)
        IN  joined # "" =>
              /\ i < Len(log)
              /\ IsClient(log[i + 1])
              /\ log[i + 1].msg.type = "assistant_message"
              /\ log[i + 1].msg.text = joined

\* a response made of two deltas, with a delta of another response between
\* its start and its end, is done
InterleavedResponseDone ==
    \E i \in StartedResponsesDone :
        /\ log[i].ev.response_id = "R1"
        /\ DeltasJoined("R1", StartOf(i) + 1, i - 1) = "ab"
        /\ \E j \in (StartOf(i) + 1)..(i - 1) :
              IsDispatchFor(log[j], "RESPONSE_TEXT_DELTA", "R2")

----------------------------------------------------------------------------
(* C11 *)

\* the last event before index i that empties or removes the text entry of
\* response_id (its response-started or a response-done), 0 if there is none
ResetOf(response_id, i) ==
    LET resets == {c \in 1..(i - 1) :
                     \/ IsDispatchFor(log[c], "RESPONSE_CREATED", response_id)
                     \/ IsDispatchFor(log[c], "RESPONSE_DONE", response_id)}
    IN  IF resets = {} THEN 0 ELSE Last(resets)

\* the text accumulated for the response that is done at index i
AccumulatedAt(i) ==
    LET response_id == Attr(log[i].ev, "response_id", None)
    IN  DeltasJoined(response_id, ResetOf(response_id, i) + 1, i - 1)

\* the event dispatched at index i is answered by exactly the client
\* messages msgs, and the pump then goes back to receiving
AnsweredBy(i, msgs) ==
    /\ i + Len(msgs) <= Len(log)
    /\ \A n \in 1..Len(msgs) : log[i + n] = [k |-> "client", msg |-> msgs[n]]
    /\ i + Len(msgs) < Len(log) => IsRecv(log[i + Len(msgs) + 1])

----------------------------------------------------------------------------
(* C12 *)

\* a response-started event for response_id was dispatched and no
\* response-done event for it since: the remote end still owes the
\* response-done event that removes the entry
AwaitsResponseDone(response_id) ==
    \E c \in 1..Len(log) :
        /\ IsDispatchFor(log[c], "RESPONSE_CREATED", response_id)
        /\ \A d \in (c + 1)..Len(log) :
              ~IsDispatchFor(log[d], "RESPONSE_DONE", response_id)

\* C12: no entry stays in _assistant_text forever when every response-started
\* event is followed by a response-done event for the same id, also when
\* deltas arrive for ids that were never started or were already finished.
\* An entry can only be removed by a response-done event for its id, so the
\* claim says that every entry belongs to a response whose response-done
\* event is still to come.  (An entry in _assistant_transcripts is removed by
\* the transcript-done event its key is assumed to receive.)
EveryTextEntryAwaitsItsDone ==
    \A response_id \in DOMAIN assistant_text : AwaitsResponseDone(response_id)

----------------------------------------------------------------------------
(* C13 *)

\* the transcript-done events dispatched for a key for which no transcript
\* delta was dispatched before, carrying a non-empty transcript
FallbackTranscriptDones ==
    {i \in 1..Len(log) :
        /\ IsDispatchOfType(log[i], "RESPONSE_AUDIO_TRANSCRIPT_DONE")
        /\ Truthy(Attr(log[i].ev, "transcript", ""))
        /\ \A j \in 1..(i - 1) :
              IsDispatchOfType(log[j], "RESPONSE_AUDIO_TRANSCRIPT_DELTA")
                 => TranscriptKey(log[j].ev) # TranscriptKey(log[i].ev)}

\* the client is sent the event-supplied transcript of the event at index i
SendsEventTranscript(i) ==
    /\ i < Len(log)
    /\ log[i + 1] = [k |-> "client",
                     msg |-> [type |-> "assistant_transcript",
                              text |-> log[i].ev.transcript,
                              response_id |-> Attr(log[i].ev, "response_id", "")]]

\* C13 as stated: for every transcript key for which no transcript delta was
\* ever accumulated, the transcript-done event with a non-empty
\* event-supplied transcript makes the client receive an
\* assistant_transcript whose text is that transcript.
FallbackTranscriptSent ==
    \A i \in FallbackTranscriptDones : SendsEventTranscript(i)

\* C13, amended: the same, in a session whose transcription display is
\* enabled (with the display disabled the dispatcher returns at line 369 and
\* sends nothing).
FallbackTranscriptSentWhenDisplayed ==
    show_transcriptions => \A i \in FallbackTranscriptDones : SendsEventTranscript(i)

\* with the display enabled, a transcript that never had a delta is done
FallbackTranscriptSeen ==
    /\ show_transcriptions
    /\ \E i \in FallbackTranscriptDones :
          log[i].ev.transcript = "u" /\ SendsEventTranscript(i)

----------------------------------------------------------------------------
(* C14 *)

IsFrame(e) == e.k = "frame"

ClientMsg(msg) == [k |-> "client", msg |-> msg]

\* the frames the client pump received, as indices of the log
Frames == Indices(log, IsFrame)

\* what the client pump did in reaction to the frame at index i: the entries
\* from the frame to the next reception (of a frame or of a remote event)
ReactionEnd(i) ==
    LET later == {j \in (i + 1)..Len(log) : IsFrame(log[j]) \/ IsRecv(log[j])}
    IN  IF later = {} THEN Len(log) ELSE (CHOOSE j \in later : \A n \in later : j <= n) - 1

Reaction(i) == SubSeq(log, i + 1, ReactionEnd(i))

\* C14: a text frame that is not parseable JSON is answered by exactly
\* {type: error, message: "Invalid payload received"}, nothing is requested
\* from the remote connection, and the client pump keeps running, so that
\* the next frame is received and processed.
MalformedFrameAnswered ==
    \A i \in Frames :
        (log[i].frame.kind = "text" /\ log[i].frame.json = "invalid") =>
            /\ Reaction(i) =
                  <<ClientMsg([type |-> "error", message |-> "Invalid payload received"])>>
            /\ ReactionEnd(i) = Len(log) => clientTask = "running" /\ ~stopped

\* a malformed frame was followed by an audio chunk that was forwarded and
\* acknowledged
FrameProcessedAfterMalformed ==
    \E i \in Frames :
        /\ log[i].frame.kind = "text" /\ log[i].frame.json = "invalid"
        /\ i + 4 <= Len(log)
        /\ IsFrame(log[i + 2])
        /\ IsRemote(log[i + 3], "append")
        /\ IsClient(log[i + 4]) /\ log[i + 4].msg.type = "ack"

----------------------------------------------------------------------------
(* C15 *)

\* the type of a frame that decodes to a message, None for any other frame
MessageType(frame) ==
    IF frame.kind = "bytes" THEN "audio_chunk"
    ELSE IF frame.kind = "text" /\ frame.json = "object"
    THEN Attr(frame.data, "type", None)
    ELSE None

IsMessage(frame) ==
    frame.kind = "bytes" \/ (frame.kind = "text" /\ frame.json = "object")

UnsupportedFrames ==
    {i \in Frames : /\ IsMessage(log[i].frame)
                    /\ MessageType(log[i].frame) \notin {"ping", "stop", "audio_chunk"}}

\* C15: a client message whose type is none of ping, stop, audio_chunk is
\* answered with one error message naming that type and with nothing else
\* (no request to the remote connection, no ack), and the client pump
\* continues.
UnsupportedTypeAnswered ==
    \A i \in UnsupportedFrames :
        /\ Reaction(i) =
              <<ClientMsg([type |-> "error",
                           message |-> <<"Unsupported message type: ",
                                         MessageType(log[i].frame)>>])>>
        /\ ReactionEnd(i) = Len(log) => clientTask = "running"

\* a message of type init was rejected and the pump received another frame
FrameAfterUnsupported ==
    \E i \in UnsupportedFrames :
        /\ MessageType(log[i].frame) = "init"
        /\ \E j \in Frames : j > i

----------------------------------------------------------------------------
(* C16 *)

\* the frames whose audio the remote input buffer refused
FailedAppends ==
    {i \in Frames : i < Len(log) /\ IsRemote(log[i + 1], "append_failed")}

\* C16: when forwarding an audio chunk to the remote input buffer fails, the
\* client is sent one generic error message and no ack, the client pump
\* continues with the next frame, and the session is not torn down (run
\* keeps waiting, the flag stays clear, the remote pump keeps running).
FailedAppendReported ==
    \A i \in FailedAppends :
        /\ Reaction(i) =
              <<log[i + 1],
                ClientMsg([type |-> "error",
                           message |-> "Unable to forward audio to assistant"])>>
        /\ ReactionEnd(i) = Len(log) =>
              /\ clientTask = "running"
              /\ eventTask = "running"
              /\ runPc = "waiting"
              /\ ~stopped

\* after a chunk that could not be forwarded, the next chunk was forwarded
\* and acknowledged
ChunkForwardedAfterFailure ==
    \E i \in FailedAppends :
        /\ i + 5 <= Len(log)
        /\ IsFrame(log[i + 3])
        /\ IsRemote(log[i + 4], "append")
        /\ IsClient(log[i + 5]) /\ log[i + 5].msg.type = "ack"

----------------------------------------------------------------------------
(* C17 *)

IsAck(e) == IsClient(e) /\ e.msg.type = "ack"

\* the sequence numbers of the acks, in the order they were sent
AckedSequences ==
    LET acks == SelectSeq(log, IsAck)
    IN  [n \in 1..Len(acks) |-> acks[n].msg.sequence]

\* the sequence numbers the client supplied with the chunks that were
\* forwarded (None where it supplied none), in the order the chunks arrived
ForwardedSequences ==
    LET IsForwarded(i) == i < Len(log) /\ IsFrame(log[i]) /\ IsRemote(log[i + 1], "append")
        forwarded == SelectSeq([i \in 1..Len(log) |-> i], IsForwarded)
    IN  [n \in 1..Len(forwarded) |->
           Attr(FrameData(log[forwarded[n]].frame), "sequence", None)]

\* C17: every audio chunk that is forwarded to the remote input buffer is
\* acknowledged exactly once, right after the forwarding, with the sequence
\* number the client supplied with it; the acks are sent in the order the
\* chunks arrived; and no ack is sent for a frame that was not forwarded.
EveryForwardedChunkAcked ==
    /\ \A j \in 2..Len(log) :
          IsRemote(log[j], "append") =>
             /\ IsFrame(log[j - 1])
             /\ Reaction(j - 1) =
                   <<log[j],
                     ClientMsg([type |-> "ack",
                                sequence |-> Attr(FrameData(log[j - 1].frame),
                                                  "sequence", None)])>>
    /\ \A n \in 1..Len(log) :
          IsAck(log[n]) => n > 2 /\ IsRemote(log[n - 1], "append")
    /\ AckedSequences = ForwardedSequences

\* chunk 2 and then chunk 1 were forwarded and acknowledged in that order,
\* with a frame that was not forwarded between them
ChunksAckedInArrivalOrder ==
    /\ AckedSequences = <<"2", "1">>
    /\ Cardinality(Frames) = 3

----------------------------------------------------------------------------
(* C18 *)

StopFrames == {i \in Frames : MessageType(log[i].frame) = "stop"}

IsCancelRequest(e) ==
    IsRemote(e, "response_cancel") \/ IsRemote(e, "response_cancel_failed")

\* the session-ready event was dispatched before index i
ReadyBefore(i) == \E j \in 1..(i - 1) : IsDispatchOfType(log[j], "SESSION_UPDATED")

\* C18 as stated: in every session state, also before the session-ready
\* event has been dispatched, a stop command requests response.cancel on the
\* remote connection and ends the client pump.
StopAlwaysCancels ==
    \A i \in StopFrames :
        /\ Len(Reaction(i)) = 1 /\ IsCancelRequest(log[i + 1])
        /\ clientTask # "running"

\* C18, amended: a stop command ends the client pump in every session state
\* (the pump returns, no further frame is received, and a failing cancel
\* does not escape it), and it requests
\* response.cancel on the remote connection exactly once if the
\* session-ready event has been dispatched, and not at all before that.
StopCancelsWhenReady ==
    \A i \in StopFrames :
        /\ ReadyBefore(i) => Len(Reaction(i)) = 1 /\ IsCancelRequest(log[i + 1])
        /\ ~ReadyBefore(i) => Reaction(i) = <<>>
        /\ \A j \in Frames : j <= i
        /\ clientTask = "done"

\* a stop command whose cancel failed ended the pump
StopWithFailingCancelSeen ==
    \E i \in StopFrames :
        /\ Reaction(i) = <<[k |-> "remote", op |-> "response_cancel_failed"]>>
        /\ clientTask = "done"
        /\ stopped

----------------------------------------------------------------------------
(* C19 *)

\* where the log continues once a coordinator has reached line 461: after
\* the awaited response-done event went through the dispatcher, and after
\* the wait for it expired
ExecutionStarts ==
    {i + 3 : i \in AwaitedDispatches}
       \cup {j + 1 : j \in Indices(log, LAMBDA e : IsLogger(e, "timeout_response"))}

\* the output item of the execution that starts at index x
OutputOf(x) == IF x <= Len(log) /\ IsInvoke(log[x]) THEN x + 1 ELSE x

\* C19: once a coordinator reaches the execution of its function, one
\* function-call-output item for its call id is submitted and response.create
\* follows, whatever the function does; the output is a mapping whose error
\* field is set when the function name is not registered (no handler is
\* called then) and when the registry handler raised (it carries the text of
\* the exception); and the failure does not end the remote pump.
FailuresStillSubmitted ==
    \A x \in ExecutionStarts :
        LET o == OutputOf(x)
        IN  /\ o + 1 <= Len(log)
            /\ IsRemote(log[o], "item_create")
            /\ IsRemote(log[o + 1], "response_create")
            /\ eventTask = "running"
            /\ \E a \in 1..(x - 1) :
                  /\ IsDispatchOfCall(log[a])
                  /\ log[a].ev.item.call_id = log[o].call_id
                  /\ log[a].ev.item.id = log[o].previous_item_id
                  /\ log[a].ev.item.name \notin available_functions =>
                        /\ o = x
                        /\ log[o].output.error # None
                  /\ log[a].ev.item.name \in available_functions =>
                        /\ o = x + 1
                        /\ log[x].name = log[a].ev.item.name
                        /\ ArgsGetRaises(log[x].arguments) =>
                              log[o].output = [fn |-> log[x].name,
                                               error |-> "AttributeError"]

\* a call whose handler raised was submitted after its turn completed, and a
\* call of an unregistered function was submitted as well
FailedCallsSubmitted ==
    /\ \E i \in AwaitedDispatches :
          /\ i + 5 <= Len(log)
          /\ IsInvoke(log[i + 3]) /\ ArgsGetRaises(log[i + 3].arguments)
          /\ IsRemote(log[i + 4], "item_create")
          /\ log[i + 4].output.error = "AttributeError"
          /\ IsRemote(log[i + 5], "response_create")
    /\ \E o \in 1..(Len(log) - 1) :
          /\ IsRemote(log[o], "item_create")
          /\ log[o].output = [fn |-> "get_stock_price", error |-> "Unknown function"]
          /\ IsRemote(log[o + 1], "response_create")

----------------------------------------------------------------------------
(* C20 *)

FatalErrorMsg ==
    [type |-> "error", message |-> "Azure Voice Live connection ended unexpectedly"]

\* the remote pump caught an exception of conn.recv(): it notified the
\* client, or tried to
FatalErrors ==
    {i \in 1..Len(log) : log[i] = ClientMsg(FatalErrorMsg)
                             \/ log[i] = [k |-> "send_raised", msg |-> FatalErrorMsg]}

\* C20: when receiving from the remote connection fails with an exception,
\* the remote pump ends; the client is sent the generic error message once
\* if its transport is still open; once run has reacted, neither pump is
\* left running; and a notification that fails on a closed transport raises
\* no secondary error out of the pump (the pump task ends without an
\* exception).
FatalErrorContained ==
    /\ Cardinality(FatalErrors) <= 1
    /\ \A i \in FatalErrors :
          /\ eventTask \in {"done", "failed"}
          /\ \A j \in (i + 1)..Len(log) : ~IsRecv(log[j]) /\ ~IsDispatch(log[j])
          /\ (\A d \in 1..(i - 1) : log[d].k # "disconnect") => IsClient(log[i])
          /\ stopped => clientTask # "running"
    /\ eventTask # "failed"

----------------------------------------------------------------------------
(* C21 *)

\* the registry calls made with a string that is no JSON
CallsWithNoJson ==
    {v \in Indices(log, IsInvoke) : ArgsParseFails(log[v].arguments)}

\* C21: for every registered function, a call with a string that is not
\* valid JSON gives the result the function gives for an empty argument
\* mapping: the all-defaults result, without an error, and that result is
\* what is submitted.
NoJsonIsEmptyArguments ==
    \A v \in CallsWithNoJson :
        /\ v < Len(log)
        /\ IsRemote(log[v + 1], "item_create")
        /\ log[v + 1].output = CallRegistry(log[v].name, EmptyArgs)
        /\ log[v + 1].output.error = None

----------------------------------------------------------------------------
(* C22 *)

\* websocket_voice_endpoint has ended: it returned or an exception left it
EndpointEnded == epPc \in {"exited", "raised"}

\* the endpoint called websocket.close()
CloseCalls == {i \in 1..Len(log) : log[i].k = "close"}

\* C22: on every exit path of websocket_voice_endpoint after the connection
\* was accepted, the endpoint has closed the client transport, and no
\* exception of a send or close on a transport that is already gone leaves
\* the endpoint.
TeardownTotal ==
    EndpointEnded => (epPc = "exited" /\ CloseCalls # {})

----------------------------------------------------------------------------
(* C23 *)

\* the init wait of the endpoint is over
HandshakeOver == log # <<>> /\ log[1].k = "frame"

\* the first message is a JSON object
FirstIsObject == log[1].frame.kind = "text" /\ log[1].frame.json = "object"

\* the first message is an init message
FirstIsInit == FirstIsObject /\ Attr(log[1].frame.data, "type", None) = "init"

\* the first message is an init message that names a voice of AVAILABLE_VOICES
FirstNamesKnownVoice ==
    FirstIsInit /\ Attr(log[1].frame.data, "voice_id", None) \in AVAILABLE_VOICES

\* the voice the handshake has to select
VoiceOfFirst ==
    IF FirstNamesKnownVoice THEN log[1].frame.data.voice_id ELSE DEFAULT_VOICE_ID

\* the session is set up with the selected voice, whenever it is set up
SetupUsesSelectedVoice ==
    \A i \in 1..Len(log) :
        IsRemote(log[i], "session_update") => log[i].voice = selected_voice_id

----------------------------------------------------------------------------
(* C24 *)

TurnDoneDispatches ==
    Indices(log, LAMBDA e : IsDispatchOfType(e, "RESPONSE_DONE"))

\* the arguments timeouts after which neither a response-done event nor a
\* new function-call item has been dispatched
UnansweredArgumentsTimeouts ==
    {i \in ArgumentsTimeouts :
        \A j \in (i + 1)..Len(log) :
            ~IsDispatchOfType(log[j], "RESPONSE_DONE") /\ ~IsDispatchOfCall(log[j])}

\* the function-call item detected last before index i
LastCallBefore(i) == Last({d \in CallDispatches : d < i})

\* a response-done event was dispatched between indices d and i
TurnDoneBetween(d, i) == \E r \in TurnDoneDispatches : d < r /\ r < i

\* C24 as stated: after the arguments wait timed out,
\* function_call_in_progress is still true and active_call_id still holds
\* the id of the abandoned call (of the innermost one, when coordinators
\* were nested), until a later response-done event is dispatched.
FlagsOutliveArgumentsTimeout ==
    \A i \in UnansweredArgumentsTimeouts :
        /\ function_call_in_progress
        /\ active_call_id = log[LastCallBefore(i)].ev.item.call_id

\* C24, amended: the arguments timeout changes neither flag.  After it,
\* function_call_in_progress is true and active_call_id is the id of the
\* call detected last (an abandoned call) unless a response-done event was
\* dispatched during the wait, which had reset both already; they stay so
\* until a later response-done event is dispatched, which resets them, or
\* a new function-call item is detected.
ArgumentsTimeoutKeepsFlags ==
    /\ \A i \in UnansweredArgumentsTimeouts :
          LET d == LastCallBefore(i)
          IN  IF TurnDoneBetween(d, i)
              THEN ~function_call_in_progress /\ active_call_id = None
              ELSE /\ function_call_in_progress
                   /\ active_call_id = log[d].ev.item.call_id
                   /\ stack = <<>>
    /\ \A i \in ArgumentsTimeouts :
          (/\ TurnDoneDispatches # {}
           /\ Last(TurnDoneDispatches) > i
           /\ \A d \in CallDispatches : d < Last(TurnDoneDispatches))
          => ~function_call_in_progress /\ active_call_id = None

\* after an arguments timeout the flags were still set while another event
\* was dispatched, and a response-done event dispatched later reset them
FlagsResetAfterArgumentsTimeout ==
    \E i \in ArgumentsTimeouts :
        /\ ~TurnDoneBetween(LastCallBefore(i), i)
        /\ i + 2 <= Len(log)
        /\ IsDispatchOfType(log[i + 2], "RESPONSE_CREATED")
        /\ \E r \in TurnDoneDispatches : r > i + 2
        /\ ~function_call_in_progress

----------------------------------------------------------------------------
(* C25 *)

\* the step receives and dispatches the event ev
StepDispatches(ev) ==
    /\ Len(log') >= Len(log) + 2
    /\ log'[Len(log) + 1] = [k |-> "recv", ev |-> ev]
    /\ IsDispatch(log'[Len(log) + 2])
    /\ log'[Len(log) + 2].ev = ev

TextDeltaEvents == {ev \in TextEvents : ev.type = "RESPONSE_TEXT_DELTA"}

\* C25: a text delta for a response id that is not in _assistant_text
\* (never started, or already finished) is a no-op: the table is unchanged,
\* no entry is created for that id, and the dispatch loop continues.
UnknownTextDeltaIsNoOp ==
    [][\A ev \in TextDeltaEvents :
         (StepDispatches(ev) /\ ev.response_id \notin DOMAIN assistant_text)
         => /\ assistant_text' = assistant_text
            /\ eventTask' = "running"]_vars

----------------------------------------------------------------------------
(* C26 *)

ResponseDoneEvents ==
    {ev \in TextEvents \cup CallEvents : ev.type = "RESPONSE_DONE"}

\* the assistant messages the step sends
NewAssistantMessages ==
    {n \in 1..Len(NewLog) :
        IsClient(NewLog[n]) /\ NewLog[n].msg.type = "assistant_message"}

\* a response-started event for response_id has been dispatched
Started(response_id) ==
    \E c \in 1..Len(log) : IsDispatchFor(log[c], "RESPONSE_CREATED", response_id)

\* what the event alone gives as text: its transcript, else the placeholder
FallbackText(ev) ==
    IF Truthy(Attr(ev, "transcript", None)) THEN ev.transcript
    ELSE "Assistant response completed."

\* the step that dispatches the response-done event ev removes the entry
\* of its response id and no other, sends exactly one assistant_message,
\* with the accumulated text, else the transcript, else the placeholder,
\* resets the function-call bookkeeping and reports idle
ResponseDoneEffect(ev) ==
    LET accumulated == DictGet(assistant_text, ev.response_id, "")
    IN  /\ assistant_text' = DictPop(assistant_text, ev.response_id)
        /\ Cardinality(NewAssistantMessages) = 1
        /\ \A n \in NewAssistantMessages :
              /\ NewLog[n].msg.text
                   = (IF accumulated # "" THEN accumulated ELSE FallbackText(ev))
              /\ NewLog[n].msg.text # ""
              /\ n < Len(NewLog)
              /\ NewLog[n + 1] = [k |-> "client",
                                  msg |-> [type |-> "assistant_state", state |-> "idle"]]
        /\ ~function_call_in_progress'
        /\ active_call_id' = None

\* C26: on every response-done event, whatever the prior state, the entry
\* of the event's response id is removed, exactly one assistant_message is
\* sent whose text is the accumulated text if non-empty, otherwise the
\* event's transcript if non-empty, otherwise the placeholder, the
\* function-call bookkeeping is reset and idle is reported; a response-done
\* event for an id that was never started yields the fallback text and
\* changes no other entry.
ResponseDoneFinishes ==
    [][\A ev \in ResponseDoneEvents :
         StepDispatches(ev)
         => /\ ResponseDoneEffect(ev)
            /\ ~Started(ev.response_id)
               => \A n \in NewAssistantMessages :
                     NewLog[n].msg.text = FallbackText(ev)]_vars

\* the part of C26 that does not speak of ids that were never started
ResponseDoneFinishesKnown ==
    [][\A ev \in ResponseDoneEvents : StepDispatches(ev) => ResponseDoneEffect(ev)]_vars

----------------------------------------------------------------------------
(* C27 *)

TranscriptDoneEvents ==
    {ev \in TranscriptEvents : ev.type = "RESPONSE_AUDIO_TRANSCRIPT_DONE"}

\* the text C27 has forwarded for ev: the deltas accumulated for its key
\* if there are any, the transcript of the event otherwise
BufferFirstText(ev) ==
    LET buffer == DictGet(assistant_transcripts, TranscriptKey(ev), "")
    IN  IF buffer # "" THEN buffer ELSE Attr(ev, "transcript", "")

\* C27: on an assistant transcript-done event with the display enabled, the
\* text forwarded to the client is the concatenation of the deltas
\* accumulated for the key (response id, item id, output index) whenever
\* that buffer is non-empty, and the transcript of the event only when the
\* buffer is empty; afterwards the table has no entry for the key.
TranscriptDonePrefersBuffer ==
    [][\A ev \in TranscriptDoneEvents :
         (StepDispatches(ev) /\ show_transcriptions)
         => /\ BufferFirstText(ev) # ""
               => /\ Len(NewLog) = 3
                  /\ NewLog[3] = [k |-> "client",
                                  msg |-> [type |-> "assistant_transcript",
                                           text |-> BufferFirstText(ev),
                                           response_id |-> ev.response_id]]
            /\ TranscriptKey(ev) \notin DOMAIN assistant_transcripts']_vars

----------------------------------------------------------------------------
(* C28 *)

ErrorDispatches == Indices(log, LAMBDA e : IsDispatchOfType(e, "ERROR"))

\* the message of the error event ev, None when it has no error object or
\* the object has no message
ErrorMessageOf(ev) ==
    IF "error" \in DOMAIN ev THEN Attr(ev.error, "message", None) ELSE None

\* C28: on a remote error event the client receives exactly one error
\* message, whose message field is the error message of the event when
\* there is one and the generic text whenever there is none (no error
\* object, or an error object without a message); the field is never null,
\* and the remote pump continues.
RemoteErrorForwarded ==
    \A i \in ErrorDispatches :
        /\ i < Len(log)
        /\ log[i + 1] = [k |-> "client",
                         msg |-> [type |-> "error",
                                  message |-> IF Truthy(ErrorMessageOf(log[i].ev))
                                              THEN ErrorMessageOf(log[i].ev)
                                              ELSE "Voice assistant error"]]
        /\ log[i + 1].msg.message # None
        /\ i + 2 <= Len(log) => ~IsClient(log[i + 2])
        /\ eventTask = "running"

\* C28 for the events that have no error object or one with a message
RemoteErrorForwardedIfMessage ==
    \A i \in ErrorDispatches :
        ("error" \in DOMAIN log[i].ev => "message" \in DOMAIN log[i].ev.error)
        => /\ i < Len(log)
           /\ log[i + 1] = [k |-> "client",
                            msg |-> [type |-> "error",
                                     message |-> IF Truthy(ErrorMessageOf(log[i].ev))
                                                 THEN ErrorMessageOf(log[i].ev)
                                                 ELSE "Voice assistant error"]]
           /\ i + 2 <= Len(log) => ~IsClient(log[i + 2])
           /\ eventTask = "running"

----------------------------------------------------------------------------
(* C29 *)

\* C29: an event of a category that is not in the dispatch table (also a
\* conversation-item-created event whose item is no function call, and an
\* arguments-done event that no coordinator is waiting for) sends nothing
\* to the client, changes no session state and does not end the dispatch
\* loop; and the speech-started, speech-stopped, audio-delta and
\* audio-finished branches leave session_ready, the function-call flags and
\* both accumulator tables unchanged.
DispatcherFrameCondition ==
    [][/\ \A ev \in UnlistedEvents :
             StepDispatches(ev)
             => /\ Len(NewLog) = 2
                /\ UNCHANGED <<session_ready, function_call_in_progress,
                               active_call_id, assistant_text,
                               assistant_transcripts, user_transcripts, stack,
                               stopped>>
                /\ eventTask' = "running"
       /\ \A ev \in NotifyingEvents :
             StepDispatches(ev)
             => UNCHANGED <<session_ready, function_call_in_progress,
                            active_call_id, assistant_text,
                            assistant_transcripts>>]_vars

\* with a call abandoned and its flags still set, a response started and a
\* coordinator gone, an arguments-done event was dispatched by the pump
UnlistedEventInBusySession ==
    /\ function_call_in_progress
    /\ active_call_id = "C2"
    /\ "R1" \in DOMAIN assistant_text
    /\ stack = <<>>
    /\ log[Len(log)] = [k |-> "dispatch",
                        ev |-> [type |-> "RESPONSE_FUNCTION_CALL_ARGUMENTS_DONE",
                                call_id |-> "C2", arguments |-> TimeArgs],
                        via |-> "pump"]

----------------------------------------------------------------------------
(* C30 *)

\* the step receives the event ev from the remote connection
StepReceives(ev) ==
    /\ Len(log') > Len(log)
    /\ log'[Len(log) + 1] = [k |-> "recv", ev |-> ev]

\* a coordinator is waiting for the arguments of its call
ArgumentsAwaited == stack # <<>> /\ stack[Len(stack)].phase = "args"

\* every event that entered _handle_event is the event received just before
EveryDispatchFollowsItsReceive ==
    \A j \in Indices(log, IsDispatch) :
        /\ j > 1
        /\ log[j - 1] = [k |-> "recv", ev |-> log[j].ev]

\* C30: within the remote pump the events are processed in the order they
\* were received, also across the coordinator: every event passed to
\* _handle_event (by _process_events, forwarded during a wait, or as the
\* awaited response-done) is passed right after it was received and before
\* the next one is, so the dispatched events are a subsequence of the
\* received ones in the same order and none is dispatched twice; and the
\* only received events that are not dispatched are the arguments-done
\* events taken by a coordinator waiting for arguments.
ReceiveOrderKept ==
    /\ [][\A ev \in CallEvents :
            StepReceives(ev)
            => \/ /\ Len(NewLog) >= 2
                  /\ NewLog[2].k = "dispatch"
                  /\ NewLog[2].ev = ev
                  /\ Cardinality(Indices(NewLog, IsDispatch)) = 1
               \/ /\ ev.type = "RESPONSE_FUNCTION_CALL_ARGUMENTS_DONE"
                  /\ ArgumentsAwaited
                  /\ Indices(NewLog, IsDispatch) = {}]_vars
    /\ []EveryDispatchFollowsItsReceive

\* one session in which the pump dispatched an event itself, a waiting
\* coordinator forwarded one, took its arguments-done event and dispatched
\* the response-done event it awaited
AllDispatchPathsSeen ==
    \E a, b, c, d \in 1..Len(log) :
        /\ a < b /\ b < c /\ c < d
        /\ IsDispatch(log[a]) /\ log[a].via = "pump"
        /\ IsDispatch(log[b]) /\ log[b].via = "forward"
        /\ IsRecv(log[c]) /\ log[c].ev.type = "RESPONSE_FUNCTION_CALL_ARGUMENTS_DONE"
        /\ IsRecv(log[c + 1])
        /\ IsDispatch(log[d]) /\ log[d].via = "awaited"

----------------------------------------------------------------------------
(* C31 *)

\* C31: the response-done event a coordinator awaits enters the ordinary
\* dispatcher before the function executes: in the step that receives it,
\* the event is dispatched exactly once (from the coordinator, not by the
\* pump), the assistant_message and assistant_state idle of the turn are
\* sent next, and the registry call and the output item come after them.
TurnDispatchedBeforeExecution ==
    [][\A ev \in ResponseDoneEvents :
         StepReceivesInPhase(ev, "done")
         => /\ Len(NewLog) >= 6
            /\ NewLog[2] = [k |-> "dispatch", ev |-> ev, via |-> "awaited"]
            /\ Indices(NewLog, IsDispatch) = {2}
            /\ IsClient(NewLog[3]) /\ NewLog[3].msg.type = "assistant_message"
            /\ NewLog[4] = [k |-> "client",
                            msg |-> [type |-> "assistant_state", state |-> "idle"]]
            /\ \A n \in 1..Len(NewLog) : IsCallActivity(NewLog[n]) => n > 4
            /\ \E n \in 5..Len(NewLog) : IsRemote(NewLog[n], "item_create")]_vars

\* the registry was called right after the messages of the awaited turn,
\* whose response-done event was dispatched once
ExecutionAfterTurnSeen ==
    \E i \in AwaitedDispatches :
        /\ i + 3 <= Len(log)
        /\ IsInvoke(log[i + 3])
        /\ log[i + 3].name = "get_current_time"
        /\ Cardinality(Indices(log, LAMBDA e : IsDispatchOfType(e, "RESPONSE_DONE"))) = 1

----------------------------------------------------------------------------
(* C32 *)

SessionUpdates == Indices(log, LAMBDA e : IsRemote(e, "session_update"))

\* what a pump writes to the log: an event received or dispatched, a frame
\* received, audio appended to the input buffer
IsPumpActivity(e) ==
    \/ IsRecv(e)
    \/ IsDispatch(e)
    \/ e.k = "frame"
    \/ IsRemote(e, "append")
    \/ IsRemote(e, "append_failed")

\* C32: session.update is sent once per session and before either pump
\* starts, so that no client audio is forwarded and no remote event is
\* dispatched before it; and the two pumps are started together, after it.
ConfiguredBeforePumps ==
    /\ Cardinality(SessionUpdates) <= 1
    /\ (eventTask = "unborn") = (clientTask = "unborn")
    /\ (eventTask # "unborn" \/ runPc # "connected") => SessionUpdates = {1}
    /\ \A i \in Indices(log, IsPumpActivity) :
          /\ SessionUpdates = {1}
          /\ i > 1
          /\ eventTask # "unborn" /\ clientTask # "unborn"

\* both pumps worked in one session: audio was appended and an event was
\* dispatched, after the one session.update
BothPumpsWorkedAfterConfigure ==
    /\ SessionUpdates = {1}
    /\ \E i, j \in 2..Len(log) : IsRemote(log[i], "append") /\ IsDispatch(log[j])

----------------------------------------------------------------------------
(* C33 *)

TranscriptDeltaEvents ==
    {ev \in TranscriptEvents : ev.type = "RESPONSE_AUDIO_TRANSCRIPT_DELTA"}

\* the key of a transcript is complete
KeyIsComplete(key) == key[1] # "" /\ key[2] # "" /\ key[3] >= 0

TranscriptMessages ==
    {i \in Indices(log, IsClient) :
        log[i].msg.type \in {"user_transcript", "assistant_transcript"}}

\* C33: with the transcription display disabled no user_transcript and no
\* assistant_transcript is ever sent and both transcript tables stay empty;
\* with the display enabled a transcript delta is accumulated only if its
\* response id and item id are non-empty and its output index is not
\* negative.
TranscriptsOnlyWhenDisplayed ==
    /\ [](~show_transcriptions
            => /\ TranscriptMessages = {}
               /\ user_transcripts = EmptyDict
               /\ assistant_transcripts = EmptyDict)
    /\ [](\A key \in DOMAIN assistant_transcripts : KeyIsComplete(key))
    /\ [][\A ev \in TranscriptDeltaEvents :
            (StepDispatches(ev) /\ ~KeyIsComplete(TranscriptKey(ev)))
            => assistant_transcripts' = assistant_transcripts]_vars

\* with the display disabled, a user transcript, a transcript delta and a
\* transcript-done event were dispatched
TranscriptEventsWithoutDisplay ==
    /\ ~show_transcriptions
    /\ \E a, b, c \in 1..Len(log) :
          /\ IsDispatchOfType(log[a], "CONVERSATION_ITEM_INPUT_AUDIO_TRANSCRIPTION_COMPLETED")
          /\ IsDispatchOfType(log[b], "RESPONSE_AUDIO_TRANSCRIPT_DELTA")
          /\ IsDispatchOfType(log[c], "RESPONSE_AUDIO_TRANSCRIPT_DONE")
          /\ b < c

----------------------------------------------------------------------------
(* C34 *)

\* the step takes the frame from the client
StepTakesFrame(frame) ==
    /\ Len(log') > Len(log)
    /\ log'[Len(log) + 1] = [k |-> "frame", frame |-> frame]

\* C34: the client pump can take its next frame in every state of the
\* remote pump, also while a coordinator waits for arguments or for the
\* turn completion; an audio chunk taken then is forwarded to the remote
\* input buffer and, unless the forwarding fails, acknowledged in the same
\* step, and the step leaves the coordinator where it is.
PumpsIndependent ==
    /\ []((clientTask = "running" /\ ~stopped /\ Count("frame") < MaxPumpFrames)
            => ENABLED FramePumps)
    /\ [][\A frame \in PumpFrames :
            StepTakesFrame(frame)
            => /\ Len(NewLog) = 3
               /\ \/ IsRemote(NewLog[2], "append") /\ IsAck(NewLog[3])
                  \/ IsRemote(NewLog[2], "append_failed") /\ IsClient(NewLog[3])
               /\ NewLog[2].audio = FrameData(frame).audio
               /\ UNCHANGED <<stack, function_call_in_progress, active_call_id,
                              eventTask>>
               /\ clientTask' = "running"]_vars

\* one chunk was forwarded and acknowledged while the coordinator waited
\* for the arguments, another while it waited for the turn completion
AudioForwardedDuringCall ==
    \E a, i, b, j, c \in 1..Len(log) :
        /\ a < i /\ i < b /\ b < j /\ j < c
        /\ IsDispatchOfCall(log[a])
        /\ IsFrame(log[i]) /\ IsRemote(log[i + 1], "append") /\ IsAck(log[i + 2])
        /\ IsRecv(log[b]) /\ log[b].ev.type = "RESPONSE_FUNCTION_CALL_ARGUMENTS_DONE"
        /\ IsFrame(log[j]) /\ IsRemote(log[j + 1], "append") /\ IsAck(log[j + 2])
        /\ IsDispatch(log[c]) /\ log[c].via = "awaited"
        /\ \A n \in a..c : ~IsLogger(log[n], "timeout_arguments")

----------------------------------------------------------------------------
(* C35 *)

\* the bridge as it is when the remote pump has dispatched nothing
UntouchedBridge ==
    [Bridge EXCEPT !.session_ready = FALSE,
                   !.function_call_in_progress = FALSE,
                   !.active_call_id = None,
                   !.assistant_text = EmptyDict,
                   !.assistant_transcripts = EmptyDict,
                   !.user_transcripts = EmptyDict,
                   !.stack = <<>>,
                   !.log = <<>>]

\* C35: apart from the remote connection and the termination flag the two
\* pumps share no state: no session variable written by the remote pump
\* (session_ready, the function-call flags, the accumulator tables) is
\* read by the client pump, so what the client pump does with a frame is
\* what it does with that frame when no remote event has been dispatched.
ClientReactionIgnoresRemoteEvents ==
    [][\A frame \in ClientFrames :
         StepTakesFrame(frame)
         => \E remote_fails \in BOOLEAN :
               LET r == OnFrame(UntouchedBridge, frame, remote_fails)
               IN  /\ NewLog = r[1].log
                   /\ (clientTask' = "running") = (r[2] = "continue")]_vars

----------------------------------------------------------------------------
(* C36 *)

\* one of the two coroutines of the endpoint has ended
OnePumpEnded == epPc = "pumping" /\ (recvTask = "done" \/ sendTask = "done")

\* C36: a disconnect or terminal error on either side unwinds the whole
\* session: once receive_from_client has ended, send_to_client takes no
\* further event from the service, once send_to_client has ended,
\* receive_from_client takes no further frame, and from the end of either
\* the endpoint reaches its teardown.
SingleEndUnwinds ==
    /\ [][(epPc = "pumping" /\ recvTask = "done")
            => \A n \in 1..Len(NewLog) : ~IsRecv(NewLog[n])]_vars
    /\ [][(epPc = "pumping" /\ sendTask = "done")
            => \A n \in 1..Len(NewLog) : ~IsFrame(NewLog[n])]_vars
    /\ OnePumpEnded ~> (epPc \in {"finally", "exited"})

----------------------------------------------------------------------------
(* C37 *)

CallIdMismatches == Indices(log, LAMBDA e : IsLogger(e, "call_id_mismatch"))

\* the call with call_id is pending at index i: its item was detected and
\* since then it was neither submitted nor abandoned
PendingAt(call_id, i) ==
    \E a \in 1..(i - 1) :
        /\ IsDispatchOfCall(log[a])
        /\ log[a].ev.item.call_id = call_id
        /\ \A n \in (a + 1)..(i - 1) :
              /\ ~(IsRemote(log[n], "item_create") /\ log[n].call_id = call_id)
              /\ ~(IsLogger(log[n], "call_id_mismatch") /\ log[n].call_id = call_id)
              /\ ~IsLogger(log[n], "timeout_arguments")
              /\ ~IsLogger(log[n], "timeout_response")

\* C37: when two function-call items are detected before any
\* arguments-done event and the arguments of each arrive afterwards, no
\* call is aborted because the arguments-done event of the other call was
\* taken in its place (so that each call whose arguments arrived goes on
\* to be executed and submitted): a call is never aborted over the
\* arguments-done event of another pending call.
NoCallAbortedOverOtherCall ==
    \A i \in CallIdMismatches :
        /\ i > 1
        /\ IsRecv(log[i - 1])
        /\ ~PendingAt(log[i - 1].ev.call_id, i - 1)

----------------------------------------------------------------------------
(* C38 *)

OutputItems == Indices(log, LAMBDA e : IsRemote(e, "item_create"))

ResponseCreates == Indices(log, LAMBDA e : IsRemote(e, "response_create"))

RegistryInvocations == Indices(log, IsInvoke)

CallIdsSeen == {log[a].ev.item.call_id : a \in Indices(log, IsDispatchOfCall)}

DetectionsOf(call_id) ==
    {a \in Indices(log, IsDispatchOfCall) : log[a].ev.item.call_id = call_id}

\* C38: for each detected function-call item the registry handler is invoked
\* at most once and at most one output item is submitted (the log grows by
\* appending, so the counts hold for every prefix); every output item is
\* immediately followed by exactly one response.create, and response.create
\* is requested only immediately after an output item.
OneOutputPerCall ==
    /\ \A i \in RegistryInvocations :
          /\ i + 1 \in OutputItems
          /\ i - 1 \notin RegistryInvocations
    /\ \A i \in OutputItems :
          /\ log[i].call_id \in CallIdsSeen
          /\ i + 1 \in ResponseCreates
          /\ i + 2 \notin ResponseCreates
    /\ \A i \in ResponseCreates : i - 1 \in OutputItems
    /\ \A c \in CallIdsSeen :
          Cardinality({i \in OutputItems : log[i].call_id = c})
              <= Cardinality(DetectionsOf(c))

\* two calls ran to their output items in one session, one of them through
\* the registry
TwoOutputsSubmitted ==
    /\ Cardinality(OutputItems) >= 2
    /\ RegistryInvocations # {}
    /\ Cardinality(Indices(log, IsDispatchOfCall)) >= 2

----------------------------------------------------------------------------
(* C39 *)

\* the mismatch aborts after which neither a response-done event nor a new
\* function-call item has been dispatched
UnansweredMismatches ==
    {i \in CallIdMismatches :
        \A j \in (i + 1)..Len(log) :
            ~IsDispatchOfType(log[j], "RESPONSE_DONE") /\ ~IsDispatchOfCall(log[j])}

\* this step is a call-id mismatch abort
StepAbortsOnMismatch ==
    \E n \in 1..Len(NewLog) : IsLogger(NewLog[n], "call_id_mismatch")

\* C39 as stated: after a call-id mismatch abort,
\* function_call_in_progress is still true and active_call_id still holds
\* the id of the aborted call until the next response-done event is
\* dispatched.
FlagsOutliveMismatchAbort ==
    \A i \in CallIdMismatches :
        (\A j \in (i + 1)..Len(log) : ~IsDispatchOfType(log[j], "RESPONSE_DONE"))
        => /\ function_call_in_progress
           /\ active_call_id = log[i].call_id

\* C39, amended: the mismatch abort changes neither flag and sends nothing
\* to the client.  After it, function_call_in_progress is true and
\* active_call_id is the id of the call detected last unless a response-done
\* event was dispatched during the wait, which had reset both already; they
\* stay so until a later response-done event is dispatched, which resets
\* them, or a new function-call item is detected.
MismatchAbortKeepsFlags ==
    /\ [](\A i \in UnansweredMismatches :
            LET d == LastCallBefore(i)
            IN  IF TurnDoneBetween(d, i)
                THEN ~function_call_in_progress /\ active_call_id = None
                ELSE /\ function_call_in_progress
                     /\ active_call_id = log[d].ev.item.call_id)
    /\ [](\A i \in CallIdMismatches :
            (/\ TurnDoneDispatches # {}
             /\ Last(TurnDoneDispatches) > i
             /\ \A d \in CallDispatches : d < Last(TurnDoneDispatches))
            => ~function_call_in_progress /\ active_call_id = None)
    /\ [][StepAbortsOnMismatch =>
            /\ function_call_in_progress' = function_call_in_progress
            /\ active_call_id' = active_call_id
            /\ Len(NewLog) = 2
            /\ IsRecv(NewLog[1])
            /\ NewLog[1].ev.type = "RESPONSE_FUNCTION_CALL_ARGUMENTS_DONE"
            /\ IsLogger(NewLog[2], "call_id_mismatch")]_vars

\* after a mismatch abort the flags were still set while another event was
\* dispatched, and a response-done event dispatched later reset them
FlagsResetAfterMismatchAbort ==
    \E i \in CallIdMismatches :
        /\ ~TurnDoneBetween(LastCallBefore(i), i)
        /\ i + 2 <= Len(log)
        /\ IsDispatchOfType(log[i + 2], "RESPONSE_CREATED")
        /\ \E r \in TurnDoneDispatches : r > i + 2
        /\ ~function_call_in_progress

====
